---------------------------- MODULE Spec2Model ----------------------------
(***************************************************************************)
(* A model of Asteria's generational cycle collector                       *)
(* (asteria/src/runtime/garbage_collector.cpp, garbage_collector.hpp).     *)
(*                                                                         *)
(* The collector's fields keep their names.  A Variable cell is a small    *)
(* integer; reference counts are not stored but counted from the holders   *)
(* of each cell (tracked sets, pool, working sets, the local `var`, slots  *)
(* of initialized cells, and handles held by the embedder).                *)
(*                                                                         *)
(* The second part models the lexer, Token_Stream                          *)
(* (asteria/src/compiler/token_stream.cpp): a byte is its code, a string   *)
(* the sequence of its bytes.                                              *)
(***************************************************************************)
EXTENDS Integers, FiniteSets, Sequences, TLC

\* ---- bounds of the model ------------------------------------------------
NCells == 2
MaxLinks == 2
MaxCount == 2
MaxThres == 2
MaxNested == 1

\* ---- program constants --------------------------------------------------
gMax == 2

Cells == 1..NCells
Gens == 0..gMax
NoVar == 0

\* The initializer list of m_thres, in array order.
DefaultThres == <<10, 70, 500>>

VARIABLES
  gc,     \* the collector and the cells it made, a record:
          \*   m_recur, m_pool, m_counts, m_thres, m_tracked, m_staged,
          \*   m_temp_1, m_temp_2, m_unreachable, m_reachable: the members
          \*     of Garbage_Collector (arrays as functions of the array index;
          \*     m_staged as a set of slots <<owner, target, k>>, each holding
          \*     its target);
          \*   var, nvars: the locals of do_collect_generation and of
          \*     finalize;
          \*   dtor: the calls that the destructors running now may still
          \*     make on the collector (destructors of the values that the
          \*     statement just executed dropped);
          \*   alive: the cells whose storage exists;
          \*   valid, value, gc_ref: the members of each Variable, value[c][d]
          \*     being the number of references to d that the value of c holds;
          \*   roots: the handles held outside the collector, per cell
  pc,     \* position inside the running call
  op,     \* the API call in progress
  arg,    \* its argument (gen_hint or gen_limit)
  gen,    \* loop variable of create_variable / collect_variables
  total,  \* nvars accumulated by collect_variables
  hist    \* observations about the calls made (history record)

VARIABLES
  source,   \* the bytes that the streambuf passed to load holds at first
  options,  \* the Parser_Options passed to load
  cbuf,     \* the bytes of the streambuf that are not read yet
  reader,   \* the Line_Reader of load: m_str, m_line, m_offset
  seq,      \* the tokens that load has accepted, in source order
  bcomm,    \* the Tack of load: m_line, m_offset, m_length
  m_stor,   \* Token_Stream::m_stor: nothing, a Parser_Error or the tokens
  lpc,      \* position inside load
  seen,     \* observations about the calls made on the stream
  libm      \* the std::pow of the build: any, the roundings that it can
            \* give (to "nearest", the double nearest to the power, or to
            \* the "other" side of the power); cur, the one that it gives
            \* to the literal read next

ctlvars == <<pc, op, arg, gen, total>>
gcvars == <<gc, ctlvars, hist>>
lexvars == <<source, options, cbuf, reader, seq, bcomm, m_stor, lpc, seen, libm>>
vars == <<gcvars, lexvars>>

\* ---- helpers ------------------------------------------------------------
B(p) == IF p THEN 1 ELSE 0

RECURSIVE SumOver(_, _)
SumOver(S, f) ==
  IF S = {} THEN 0
  ELSE LET x == CHOOSE y \in S : TRUE IN f[x] + SumOver(S \ {x}, f)

NoValue == [d \in Cells |-> 0]

\* Index of generation g in m_counts, m_thres and m_tracked.
Idx(g) == gMax - g

\* mut_ptr(gMax-gen-1): for the oldest generation the index wraps around and
\* no element is found.
HasNext(g) == (gMax - g - 1) \in 0..gMax

\* ---- Variable and Value (variable.hpp, value.hpp) ----------------------
\* The reference slots owned by the value of cell c.
SlotsOf(st, c) == UNION {{<<c, d, k>> : k \in 1..st.value[c][d]} : d \in Cells}

Target(s) == s[2]

\* Variable::use_count(): one per holder of an rcptr to the cell.
use_count(st, c) ==
    st.roots[c]
  + Cardinality({i \in 0..gMax : c \in st.m_tracked[i]})
  + B(c \in st.m_pool)
  + SumOver(Cells, [o \in Cells |-> st.value[o][c]])
  + Cardinality({s \in st.m_staged : Target(s) = c})
  + B(c \in st.m_temp_1) + B(c \in st.m_temp_2)
  + B(c \in st.m_unreachable) + B(c \in st.m_reachable)
  + B(st.var = c)

\* Releasing the last reference to a cell destroys it, which drops its value
\* and so releases the references it held.
RECURSIVE Sweep(_)
Sweep(st) ==
  LET dead == {c \in st.alive : use_count(st, c) = 0} IN
  IF dead = {} THEN st
  ELSE Sweep([st EXCEPT
         !.alive = @ \ dead,
         !.valid = [c \in Cells |-> IF c \in dead THEN FALSE ELSE @[c]],
         !.gc_ref = [c \in Cells |-> IF c \in dead THEN 0 ELSE @[c]],
         !.value = [c \in Cells |-> IF c \in dead THEN NoValue ELSE @[c]]])

\* Variable::uninitialize(): the value is dropped.
uninitialize(st, c) ==
  [st EXCEPT !.value[c] = NoValue, !.valid[c] = FALSE]

\* Value::get_variables(staged, temp): every slot of the value that is not
\* staged yet is staged, and its target is put into `temp`.
NewSlots(st, c) == SlotsOf(st, c) \ st.m_staged

get_variables_1(st, c) ==
  [st EXCEPT !.m_staged = @ \cup NewSlots(st, c),
             !.m_temp_1 = @ \cup {Target(s) : s \in NewSlots(st, c)}]

get_variables_2(st, c) ==
  [st EXCEPT !.m_staged = @ \cup NewSlots(st, c),
             !.m_temp_2 = @ \cup {Target(s) : s \in NewSlots(st, c)}]

\* ---- Garbage_Collector::do_collect_generation ---------------------------
\* Lines 45-60, and lines 201-212 of finalize: the sentry, the locals and
\* the clears.
Enter(st) ==
  [st EXCEPT !.m_recur = @ + 1, !.nvars = 0, !.var = NoVar,
             !.m_staged = {}, !.m_temp_1 = {}, !.m_temp_2 = {},
             !.m_unreachable = {}, !.m_reachable = {}]

\* Lines 70-77, one iteration with v the erased element.
Phase1(st, v) ==
  get_variables_1([st EXCEPT !.m_temp_1 = @ \ {v}, !.var = v, !.gc_ref[v] = 1], v)

\* Lines 81-88, one iteration with s the erased element.
Phase2(st, s) ==
  [st EXCEPT !.m_staged = @ \ {s}, !.var = Target(s),
             !.gc_ref[Target(s)] = @ + 1,
             !.m_temp_1 = @ \cup {Target(s)}]

\* Lines 68 and 91.
Merge(st, g) == [st EXCEPT !.m_temp_1 = @ \cup st.m_tracked[Idx(g)]]

\* Lines 105-111: the body of the inner loop.
Mark(st, v) ==
  get_variables_2([st EXCEPT !.var = v, !.gc_ref[v] = 0,
                             !.m_unreachable = @ \ {v},
                             !.m_reachable = @ \cup {v}], v)

\* Line 96, evaluated with v erased from m_temp_1 and held by `var`.
Unreferenced(st, v) ==
  LET p == [st EXCEPT !.m_temp_1 = @ \ {v}, !.var = v] IN
  p.gc_ref[v] = use_count(p, v) - 1

\* Lines 93-102, one iteration of the outer loop up to the inner loop.
Phase3(st, v) ==
  LET p == [st EXCEPT !.m_temp_1 = @ \ {v}, !.var = v] IN
  IF Unreferenced(st, v)
  THEN [p EXCEPT !.m_unreachable = @ \cup {v}]
  ELSE Mark(p, v)

\* Lines 113, 105-111: one further iteration of the inner loop.
Phase3Inner(st, v) == Mark([st EXCEPT !.m_temp_2 = @ \ {v}], v)

\* Lines 117-121: the element is erased and uninitialized.
Reclaim1(st, v) ==
  uninitialize([st EXCEPT !.m_unreachable = @ \ {v}, !.var = v], v)

\* Lines 122-123 without the erasure from the tracked set.
Reclaim2_NoErase(st, g) == [st EXCEPT !.nvars = @ + 1]

\* Lines 122-123.
Reclaim2(st, g) ==
  [st EXCEPT !.m_tracked[Idx(g)] = @ \ {st.var}, !.nvars = @ + 1]

\* Lines 128-129, when the insertion succeeds.
Reclaim3(st, g) ==
  IF st.var \in st.m_tracked[Idx(g)]
  THEN [Reclaim2(st, g) EXCEPT !.m_pool = @ \cup {st.var}]
  ELSE Reclaim2(st, g)

\* Lines 135-147, one iteration.
Promote(st, g, v) ==
  LET p == [st EXCEPT !.m_reachable = @ \ {v}, !.var = v,
                      !.m_tracked[Idx(g) - 1] = @ \cup {v}] IN
  IF v \in st.m_tracked[Idx(g)]
  THEN [p EXCEPT !.m_tracked[Idx(g)] = @ \ {v}, !.m_counts[Idx(g) - 1] = @ + 1]
  ELSE [p EXCEPT !.m_tracked[Idx(g) - 1] = @ \ {v}]

\* Lines 152-155 and the destructors of `var` and of the sentry.  The
\* scratch counters of the cells stay as the pass left them.
Leave(st, g) ==
  [st EXCEPT !.m_counts[Idx(g)] = 0, !.var = NoVar, !.m_recur = @ - 1]

\* Unwinding without the destructor of the sentry (line 25).
Unwind_Held(st) == [st EXCEPT !.var = NoVar, !.nvars = 0]

\* An exception leaves the function: only the destructors run.
Unwind(st) ==
  [st EXCEPT !.var = NoVar, !.nvars = 0, !.m_recur = @ - 1]

\* ---- Garbage_Collector::create_variable ---------------------------------
\* Line 164 comparing with > instead of >=.
Due_Strict(st, g) == st.m_counts[Idx(g)] > st.m_thres[Idx(g)]

\* Line 164.
Due(st, g) == st.m_counts[Idx(g)] >= st.m_thres[Idx(g)]

\* make_refcnt<Variable>(): storage that is not in use.
Fresh(st) == CHOOSE c \in Cells \ st.alive : \A d \in Cells \ st.alive : c <= d

\* Lines 175-178 alone: the cell is tracked, the pool keeps its entry.
Track_PoolKept(st, hint, v) ==
  [st EXCEPT !.alive = @ \cup {v}, !.nvars = 0,
             !.m_tracked[Idx(hint)] = @ \cup {v},
             !.m_counts[Idx(hint)] = @ + 1,
             !.roots[v] = @ + 1]

\* Lines 169-178, with v the cell obtained; the caller receives a handle.
Track(st, hint, v) ==
  [st EXCEPT !.m_pool = @ \ {v}, !.alive = @ \cup {v}, !.nvars = 0,
             !.m_tracked[Idx(hint)] = @ \cup {v},
             !.m_counts[Idx(hint)] = @ + 1,
             !.roots[v] = @ + 1]

\* ---- Garbage_Collector::collect_variables -------------------------------
\* Line 192.
ClearPool(st) == [st EXCEPT !.m_pool = {}]

\* Lines 192-193, the call returning.
Return(st) == [ClearPool(st) EXCEPT !.nvars = 0]

\* ---- calls made by a destructor while m_recur > 0 ------------------------
\* collect_variables: every do_collect_generation returns 0 at line 47, its
\* sentry leaving m_recur as it was; then line 192 runs.
NestedCollect(st) == [ClearPool(st) EXCEPT !.dtor = @ - 1]

\* create_variable(hint): the collections of lines 163-165 that are due
\* return 0 at line 47; lines 169-178 run, with v the cell obtained.  The
\* destructor receives the handle, and either keeps it or lets go of it
\* before it returns: a cell whose handle is let go is held by its tracked
\* set alone.
NestedCreate(st, hint, v, keep) ==
  [Track(st, hint, v) EXCEPT !.nvars = st.nvars, !.dtor = @ - 1,
                             !.roots[v] = IF keep THEN @ ELSE st.roots[v]]

\* The destructors have returned: the statement that ran them is over.
Resume(st) == [st EXCEPT !.dtor = 0]

\* ---- Garbage_Collector::finalize ----------------------------------------
TrackedAll(st) == UNION {st.m_tracked[i] : i \in 0..gMax}

\* What lines 218 and 225 add up when no destructor calls the collector.
finalize_ret(st) ==
  SumOver(0..gMax, [i \in 0..gMax |-> Cardinality(st.m_tracked[i])])
  + Cardinality(st.m_pool)

\* Lines 217-218.
FinalCount(st, g) == [st EXCEPT !.nvars = @ + Cardinality(st.m_tracked[Idx(g)])]

\* Lines 220-221, one iteration with v the erased element.
FinalWipe(st, g, v) ==
  uninitialize([st EXCEPT !.m_tracked[Idx(g)] = @ \ {v}, !.var = v], v)

\* Lines 225-227 and the destructors of `var` and of the sentry.
FinalReturn(st) ==
  [st EXCEPT !.m_pool = {}, !.var = NoVar, !.nvars = 0, !.m_recur = @ - 1]

\* ---- properties ---------------------------------------------------------
get_threshold(st, g) == st.m_thres[Idx(g)]

\* set_threshold storing at index gen instead of gMax-gen.
set_threshold_Unmapped(st, g, n) == [st EXCEPT !.m_thres[g] = n]

set_threshold(st, g, n) == [st EXCEPT !.m_thres[Idx(g)] = n]

\* ---- the embedder -------------------------------------------------------
TotalLinks(st) == SumOver(Cells, [c \in Cells |-> SumOver(Cells, st.value[c])])

\* A value holding one more reference to d is assigned to c.
Link(st, c, d) == [st EXCEPT !.value[c][d] = @ + 1, !.valid[c] = TRUE]

DropRoot(st, c) == [st EXCEPT !.roots[c] = @ - 1]

\* The cells of S that a chain of one or more references inside S leads to
\* from the cells of R.
RECURSIVE ReachIn(_, _, _)
ReachIn(st, S, R) ==
  LET n == R \cup {d \in S : \E c \in R : st.value[c][d] > 0} IN
  IF n = R THEN R ELSE ReachIn(st, S, n)

ReachedFrom(st, S, c) == ReachIn(st, S, {d \in S : st.value[c][d] > 0})

\* The references to c held by the values of the cells of S.
SlotsFrom(st, S, c) == SumOver(S, [o \in S |-> st.value[o][c]])

\* The closed cycles: every member is referenced from every member, and is
\* held by nothing but the slots of the members and the tracked sets.
ClosedCycles(st) ==
  {S \in SUBSET st.alive :
     /\ S # {}
     /\ \A c \in S : ReachedFrom(st, S, c) = S
     /\ \A c \in S : use_count(st, c) =
            SlotsFrom(st, S, c) + Cardinality({i \in 0..gMax : c \in st.m_tracked[i]})}

\* ---- the token stream, before anything is loaded ------------------------
\* The options, all of them off.
NoOptions ==
  [keyword_as_identifier |-> FALSE, integer_as_real |-> FALSE,
   escapable_single_quote_string |-> FALSE]

\* Lines 27-31.  m_past is what a read past the null byte that ends the line
\* would give: such a read is undefined, and -1 is a byte that no text holds.
NewReader == [m_str |-> <<>>, m_line |-> 0, m_offset |-> 0, m_past |-> -1]

\* Lines 126-129.
NewTack == [m_line |-> 0, m_offset |-> 0, m_length |-> 0]

\* m_stor holding nothing (state_empty), as line 809 and clear() leave it.
Nothing == [state |-> "state_empty"]

NoSeen ==
  [last |-> "none",    \* the call that returned last
   flag |-> FALSE,     \* what load or empty returned
   tok |-> <<>>,       \* the token that peek_opt returned, if any
   threw |-> "none",   \* the runtime error that the call threw, if any
   shifts |-> 0,       \* the shift calls that returned since the load
   tokens |-> <<>>]    \* the tokens that the load accepted, in source order

NoStream ==
  /\ source = <<>> /\ options = NoOptions /\ cbuf = <<>>
  /\ reader = NewReader /\ seq = <<>> /\ bcomm = NewTack
  /\ m_stor = Nothing /\ lpc = "idle" /\ seen = NoSeen
  /\ libm = [any |-> {"nearest"}, cur |-> "nearest"]

\* ---- the state machine --------------------------------------------------
\* What the properties below need to remember of the calls made.
NoHist ==
  [last |-> "none",      \* the call that returned last
   ret |-> 0,            \* its return value (of create_variable: the hint)
   order |-> <<>>,       \* the generations collected by the running call
   pre |-> {},           \* the tracked set of the generation, before the pass
   precnt |-> <<0, 0>>,  \* the counters of the generation and of the next one
   mark |-> {},          \* cells the call is expected to deal with
   was |-> {},           \* the cells tracked when collect_variables was called
   found |-> {},         \* the cells the running pass has found unreachable
   made |-> 0]           \* the cells that destructors have created in the
                         \* generation of the running pass, since it began

InitCollector ==
  /\ gc = [m_recur |-> 0, m_pool |-> {},
           m_counts |-> [i \in 0..gMax |-> 0],
           m_thres |-> [i \in 0..gMax |-> DefaultThres[i + 1]],
           m_tracked |-> [i \in 0..gMax |-> {}],
           m_staged |-> {}, m_temp_1 |-> {}, m_temp_2 |-> {},
           m_unreachable |-> {}, m_reachable |-> {},
           var |-> NoVar, nvars |-> 0, dtor |-> 0,
           alive |-> {},
           valid |-> [c \in Cells |-> FALSE],
           value |-> [c \in Cells |-> NoValue],
           gc_ref |-> [c \in Cells |-> 0],
           roots |-> [c \in Cells |-> 0]]
  /\ pc = "idle"
  /\ op = "none"
  /\ arg = 0
  /\ gen = 0
  /\ total = 0
  /\ hist = NoHist

\* The collector alone: no stream is made.
Init == InitCollector /\ NoStream

\* The loops of do_collect_generation: a loop whose set is exhausted is left
\* at once, p being the loop that is about to test its condition; after the
\* last loop the function returns to the loop of its caller.
RECURSIVE Settle(_, _, _)
Settle(st, p, g) ==
  CASE p = "P1" -> IF st.m_temp_1 # {} THEN <<st, p>> ELSE Settle(st, "P2", g)
    [] p = "P2" -> IF st.m_staged # {} THEN <<st, p>>
                   ELSE Settle(Merge(st, g), "P3", g)
    [] p = "P3m" -> IF st.m_temp_2 # {} THEN <<st, p>> ELSE Settle(st, "P3", g)
    [] p = "P3" -> IF st.m_temp_1 # {} THEN <<st, p>> ELSE Settle(st, "P4", g)
    [] p = "P4" -> IF st.m_unreachable # {} THEN <<st, p>>
                   ELSE IF HasNext(g) THEN Settle(st, "P5", g)
                   ELSE <<Sweep(Leave(st, g)), "loop">>
    [] p = "P5" -> IF st.m_reachable # {} THEN <<st, p>>
                   ELSE <<Sweep(Leave(st, g)), "loop">>
    [] OTHER -> <<st, p>>

\* The next state of the collector and the cells is st, once the cells that
\* lost their last reference are destroyed.
Commit(st) == gc' = Sweep(st) /\ UNCHANGED lexvars

\* The same inside do_collect_generation(g), which goes on at p.
Go(st, p, g) ==
  /\ \E r \in {Settle(Sweep(st), p, g)} : gc' = r[1] /\ pc' = r[2]
  /\ UNCHANGED lexvars

\* The next state is st once the cells that lost their last reference are
\* destroyed, while the destructors of the values that the statement has
\* dropped run: each such statement lets them make MaxNested calls.
Run(st) ==
  /\ \E s \in {Sweep(st)} :
       gc' = [s EXCEPT !.dtor = IF \E c \in Cells : gc.valid[c] /\ ~s.valid[c]
                                THEN MaxNested ELSE 0]
  /\ UNCHANGED lexvars

\* The generation that the loop of create_variable (line 163-164) or of
\* collect_variables (line 187) collects next, from generation g on; gMax + 1
\* when the loop ends.
\* The loop taking the oldest generation first.
LoopGen_OldestFirst(st, o, a, g) ==
  LET S == {h \in g..gMax : IF o = "create" THEN Due(st, h) ELSE h <= a} IN
  IF S = {} THEN gMax + 1 ELSE CHOOSE h \in S : \A k \in S : h >= k

LoopGen(st, o, a, g) ==
  LET S == {h \in g..gMax : IF o = "create" THEN Due(st, h) ELSE h <= a} IN
  IF S = {} THEN gMax + 1 ELSE CHOOSE h \in S : \A k \in S : h <= k

\* do_collect_generation(g) is entered.
PassHist(h, st, g) ==
  [h EXCEPT !.last = "running",
            !.order = Append(@, g),
            !.pre = st.m_tracked[Idx(g)],
            !.found = {},
            !.made = 0,
            !.precnt = <<st.m_counts[Idx(g)],
                         IF HasNext(g) THEN st.m_counts[Idx(g) - 1] ELSE 0>>]

\* The calls are made while the counters are small: a counter beyond MaxCount
\* is first brought back by a collection of its generation.
Quiet == \A g \in Gens : gc.m_counts[Idx(g)] <= MaxCount \/ Due(gc, g)

\* -- the embedder, between calls
EmbedderLink(c, d) ==
  /\ pc = "idle"
  /\ gc.roots[c] > 0 /\ gc.roots[d] > 0
  /\ TotalLinks(gc) < MaxLinks
  /\ Commit(Link(gc, c, d))
  /\ hist' = NoHist
  /\ UNCHANGED ctlvars

EmbedderDrop(c) ==
  /\ pc = "idle"
  /\ gc.roots[c] > 0
  /\ Commit(DropRoot(gc, c))
  /\ hist' = NoHist
  /\ UNCHANGED ctlvars

SetThreshold(g, n) ==
  /\ pc = "idle"
  /\ Commit(set_threshold(gc, g, n))
  /\ hist' = [NoHist EXCEPT !.last = "set_threshold", !.ret = n, !.mark = {g},
                            !.pre = {<<h, get_threshold(gc, h)>> : h \in Gens}]
  /\ UNCHANGED ctlvars

\* -- create_variable(gen_hint)
\* Lines 169-178 as a step of the call.
Allocate(hint, h) ==
  /\ gc.m_pool = {} => Cells \ gc.alive # {}
  /\ \E v \in (IF gc.m_pool # {} THEN gc.m_pool ELSE {Fresh(gc)}) :
       /\ Commit(Track(gc, hint, v))
       /\ hist' = [h EXCEPT !.last = "create", !.ret = hint, !.mark = {v}]
  /\ pc' = "idle" /\ op' = "none"
  /\ arg' = 0 /\ gen' = 0 /\ total' = 0

\* The call, up to the clears of its first collection or, when no
\* generation is due, up to its return.
Create(hint) ==
  /\ pc = "idle" /\ Quiet
  /\ gc.m_counts[Idx(hint)] < MaxCount \/ Due(gc, hint)
  /\ LET g == LoopGen(gc, "create", hint, 0) IN
     IF g > gMax
     THEN Allocate(hint, NoHist)
     ELSE /\ Run(Enter(gc)) /\ pc' = "P0"
          /\ op' = "create" /\ arg' = hint /\ gen' = g /\ total' = 0
          /\ hist' = PassHist(NoHist, gc, g)

\* The loop at line 163 has ended after a collection.
CreateEnd ==
  /\ pc = "loop" /\ op = "create"
  /\ LoopGen(gc, op, arg, gen + 1) > gMax
  /\ Allocate(arg, hist)

\* -- collect_variables(gen_limit)
\* Lines 186-188 and lines 45-60 of the first collection.
CollectBegin(limit) ==
  /\ pc = "idle" /\ Quiet
  /\ Run(Enter(gc)) /\ pc' = "P0"
  /\ op' = "collect" /\ arg' = limit /\ gen' = 0 /\ total' = 0
  /\ hist' = [PassHist(NoHist, gc, 0) EXCEPT
                !.mark = IF limit = gMax THEN UNION ClosedCycles(gc) ELSE {},
                !.was = TrackedAll(gc)]

\* Lines 192-193.
CollectEnd ==
  /\ pc = "loop" /\ op = "collect"
  /\ LoopGen(gc, op, arg, gen + 1) > gMax
  /\ Commit(Return(gc))
  /\ pc' = "idle" /\ op' = "none"
  /\ hist' = [hist EXCEPT !.last = "collect", !.ret = total + gc.nvars]
  /\ arg' = 0 /\ gen' = 0 /\ total' = 0

\* The loop of either call goes on to its next collection, up to the
\* clears of lines 56-60.
PassNext ==
  /\ pc = "loop"
  /\ LoopGen(gc, op, arg, gen + 1) <= gMax
  /\ LET g == LoopGen(gc, op, arg, gen + 1) IN
       /\ Run(Enter(gc)) /\ pc' = "P0"
       /\ gen' = g
       /\ hist' = PassHist(hist, gc, g)
  /\ total' = total + gc.nvars
  /\ UNCHANGED <<op, arg>>

\* -- do_collect_generation(gen), one loop iteration per step
\* Line 68, once the destructors that the clears have run are over.
Step0 ==
  /\ pc = "P0"
  /\ Go(Merge(Resume(gc), gen), "P1", gen)
  /\ hist' = [hist EXCEPT !.last = "running"]
  /\ UNCHANGED <<op, arg, gen, total>>

Step1 ==
  /\ pc = "P1"
  /\ \E v \in gc.m_temp_1 : Go(Phase1(gc, v), "P1", gen)
  /\ UNCHANGED <<op, arg, gen, total, hist>>

Step2 ==
  /\ pc = "P2"
  /\ \E s \in gc.m_staged : Go(Phase2(gc, s), "P2", gen)
  /\ UNCHANGED <<op, arg, gen, total, hist>>

Step3 ==
  /\ pc = "P3"
  /\ \E v \in gc.m_temp_1 :
       Go(Phase3(gc, v), IF Unreferenced(gc, v) THEN "P3" ELSE "P3m", gen)
  /\ hist' = IF pc' = "P4" THEN [hist EXCEPT !.found = gc'.m_unreachable]
             ELSE hist
  /\ UNCHANGED <<op, arg, gen, total>>

Step3Inner ==
  /\ pc = "P3m"
  /\ \E v \in gc.m_temp_2 : Go(Phase3Inner(gc, v), "P3m", gen)
  /\ hist' = IF pc' = "P4" THEN [hist EXCEPT !.found = gc'.m_unreachable]
             ELSE hist
  /\ UNCHANGED <<op, arg, gen, total>>

\* Lines 117-121: the destructor of the value dropped may run.
Step4 ==
  /\ pc = "P4"
  /\ \E v \in gc.m_unreachable : Run(Reclaim1(gc, v))
  /\ pc' = "P4b"
  /\ UNCHANGED <<op, arg, gen, total, hist>>

\* Lines 122-129, the insertion into the pool succeeding.
Step4Pool ==
  /\ pc = "P4b"
  /\ Go(Reclaim3(Resume(gc), gen), "P4", gen)
  /\ hist' = [hist EXCEPT !.last = "running"]
  /\ UNCHANGED <<op, arg, gen, total>>

\* Line 129 throws: the exception leaves do_collect_generation and the call
\* that made it.
Step4Throw ==
  /\ pc = "P4b"
  /\ gc.var \in gc.m_tracked[Idx(gen)]
  /\ Commit(Unwind(Reclaim2(Resume(gc), gen)))
  /\ pc' = "idle" /\ op' = "none"
  /\ hist' = [hist EXCEPT !.last = "threw", !.mark = {gc.var}]
  /\ arg' = 0 /\ gen' = 0 /\ total' = 0

\* -- calls made by the destructors that a statement of
\* do_collect_generation (lines 56-60, line 121) or of finalize (lines
\* 208-212, line 221) runs
\* A destructor calls collect_variables.
NestedCollectVariables ==
  /\ pc \in {"P0", "P4b", "F0", "F1"}
  /\ gc.m_recur > 0 /\ gc.dtor > 0
  /\ Commit(NestedCollect(gc))
  /\ hist' = [hist EXCEPT !.last = "nested", !.ret = 0]
  /\ UNCHANGED ctlvars

\* A destructor calls create_variable(hint), and keeps the handle that is
\* returned or drops it.
NestedCreateVariable(hint) ==
  /\ pc \in {"P0", "P4b", "F0", "F1"}
  /\ gc.m_recur > 0 /\ gc.dtor > 0
  /\ gc.m_counts[Idx(hint)] < MaxCount
  /\ gc.m_pool = {} => Cells \ gc.alive # {}
  /\ \E v \in (IF gc.m_pool # {} THEN gc.m_pool ELSE {Fresh(gc)}) :
       \E keep \in BOOLEAN : Commit(NestedCreate(gc, hint, v, keep))
  /\ hist' = [hist EXCEPT !.last = "made",
                          !.made = IF hint = gen THEN @ + 1 ELSE @]
  /\ UNCHANGED ctlvars

Step5 ==
  /\ pc = "P5"
  /\ \E v \in gc.m_reachable : Go(Promote(gc, gen, v), "P5", gen)
  /\ UNCHANGED <<op, arg, gen, total, hist>>

\* -- clear_pooled_variables()
\* Lines 58-60 of the header, called between two calls.
ClearPooledVariables ==
  /\ pc = "idle"
  /\ Commit(ClearPool(gc))
  /\ hist' = NoHist
  /\ UNCHANGED ctlvars

\* -- finalize()
\* Lines 201-212: line 203 ends the program when a collection is running.
Finalize ==
  /\ pc = "idle"
  /\ gc.m_recur = 0
  /\ Run(Enter(gc)) /\ pc' = "F0"
  /\ op' = "finalize" /\ arg' = 0 /\ gen' = 0 /\ total' = 0
  /\ hist' = [NoHist EXCEPT !.last = "running", !.pre = TrackedAll(gc),
                            !.mark = gc.m_pool]

\* Lines 216-218: the loop enters its first generation, or the next one
\* when line 220 finds the tracked set of the generation empty.
FinalizeGen ==
  /\ \/ pc = "F0"
     \/ pc = "F1" /\ gc.m_tracked[Idx(gen)] = {} /\ gen < gMax
  /\ \E g \in {IF pc = "F0" THEN 0 ELSE gen + 1} :
       /\ Commit(FinalCount(Resume(gc), g))
       /\ gen' = g
  /\ pc' = "F1"
  /\ hist' = [hist EXCEPT !.last = "running"]
  /\ UNCHANGED <<op, arg, total>>

\* Lines 220-221: the destructor of the value dropped may run.
FinalizeWipe ==
  /\ pc = "F1"
  /\ \E v \in gc.m_tracked[Idx(gen)] : Run(FinalWipe(gc, gen, v))
  /\ hist' = [hist EXCEPT !.last = "running"]
  /\ UNCHANGED ctlvars

\* Lines 220, 216, 225-227: the last generation is exhausted.
FinalizeEnd ==
  /\ pc = "F1" /\ gc.m_tracked[Idx(gen)] = {} /\ gen = gMax
  /\ Commit(FinalReturn(Resume(gc)))
  /\ pc' = "idle" /\ op' = "none"
  /\ hist' = [hist EXCEPT !.last = "finalize",
                          !.ret = gc.nvars + Cardinality(gc.m_pool)]
  /\ arg' = 0 /\ gen' = 0 /\ total' = 0

\* The collector in use: the embedder and the calls that allocate and
\* collect, with the calls that destructors make meanwhile.
Next ==
  \/ \E c, d \in Cells : EmbedderLink(c, d)
  \/ \E c \in Cells : EmbedderDrop(c)
  \/ \E g \in Gens : Create(g)
  \/ \E g \in Gens : CollectBegin(g)
  \/ PassNext
  \/ CollectEnd
  \/ Step0
  \/ Step1
  \/ Step2
  \/ Step3
  \/ Step3Inner
  \/ Step4
  \/ Step4Pool
  \/ Step4Throw
  \/ NestedCollectVariables
  \/ \E g \in Gens : NestedCreateVariable(g)
  \/ Step5
  \/ ClearPooledVariables

Spec == Init /\ [][Next]_vars

\* The collector in use and finalized, in the runs where no insertion into
\* the pool fails: after finalize has returned the collector is used as
\* before.
NextFinal ==
  \/ \E c, d \in Cells : EmbedderLink(c, d)
  \/ \E c \in Cells : EmbedderDrop(c)
  \/ \E g \in Gens : Create(g)
  \/ \E g \in Gens : CollectBegin(g)
  \/ PassNext
  \/ CollectEnd
  \/ Step0
  \/ Step1
  \/ Step2
  \/ Step3
  \/ Step3Inner
  \/ Step4
  \/ Step4Pool
  \/ NestedCollectVariables
  \/ \E g \in Gens : NestedCreateVariable(g)
  \/ Step5
  \/ ClearPooledVariables
  \/ Finalize
  \/ FinalizeGen
  \/ FinalizeWipe
  \/ FinalizeEnd

SpecFinal == Init /\ [][NextFinal]_vars

\* The collector with thresholds set by the embedder, so that create_variable
\* collects.  The embedder stores no references in the cells here (so the
\* loops over m_staged and m_temp_2 have nothing to do), no insertion fails
\* and, the cells holding no values, no destructor runs.
NextThres ==
  \/ \E c \in Cells : EmbedderDrop(c)
  \/ \E g \in Gens, n \in 1..MaxThres : SetThreshold(g, n)
  \/ \E g \in Gens : Create(g)
  \/ CreateEnd
  \/ \E g \in Gens : CollectBegin(g)
  \/ PassNext
  \/ CollectEnd
  \/ Step0
  \/ Step1
  \/ Step3
  \/ Step4
  \/ Step4Pool
  \/ Step5
  \/ ClearPooledVariables

SpecThres == Init /\ [][NextThres]_vars

\* ==== the lexer ==========================================================

\* ---- tables -------------------------------------------------------------
\* Line 14: "00112233445566778899AaBbCcDdEeFf".
s_digits ==
  <<48, 48, 49, 49, 50, 50, 51, 51, 52, 52, 53, 53, 54, 54, 55, 55, 56, 56,
    57, 57, 65, 97, 66, 98, 67, 99, 68, 100, 69, 101, 70, 102>>

\* Line 186: "!%&()*+,-./:;<=>?[]^{|}~".
s_punct_chars ==
  <<33, 37, 38, 40, 41, 42, 43, 44, 45, 46, 47, 58, 59, 60, 61, 62, 63, 91,
    93, 94, 123, 124, 125, 126>>

\* Lines 198-255: the lexemes and their punctuators, in the order of the
\* source.
s_punctuators ==
  << [first |-> <<33>>, second |-> "punctuator_notl"],              \* !
     [first |-> <<33, 61>>, second |-> "punctuator_cmp_ne"],        \* !=
     [first |-> <<37>>, second |-> "punctuator_mod"],               \* %
     [first |-> <<37, 61>>, second |-> "punctuator_mod_eq"],        \* %=
     [first |-> <<38>>, second |-> "punctuator_andb"],              \* &
     [first |-> <<38, 38>>, second |-> "punctuator_andl"],          \* &&
     [first |-> <<38, 38, 61>>, second |-> "punctuator_andl_eq"],   \* &&=
     [first |-> <<38, 61>>, second |-> "punctuator_andb_eq"],       \* &=
     [first |-> <<40>>, second |-> "punctuator_parenth_op"],        \* (
     [first |-> <<41>>, second |-> "punctuator_parenth_cl"],        \* )
     [first |-> <<42>>, second |-> "punctuator_mul"],               \* *
     [first |-> <<42, 61>>, second |-> "punctuator_mul_eq"],        \* *=
     [first |-> <<43>>, second |-> "punctuator_add"],               \* +
     [first |-> <<43, 43>>, second |-> "punctuator_inc"],           \* ++
     [first |-> <<43, 61>>, second |-> "punctuator_add_eq"],        \* +=
     [first |-> <<44>>, second |-> "punctuator_comma"],             \* ,
     [first |-> <<45>>, second |-> "punctuator_sub"],               \* -
     [first |-> <<45, 45>>, second |-> "punctuator_dec"],           \* --
     [first |-> <<45, 61>>, second |-> "punctuator_sub_eq"],        \* -=
     [first |-> <<46>>, second |-> "punctuator_dot"],               \* .
     [first |-> <<46, 46, 46>>, second |-> "punctuator_ellipsis"],  \* ...
     [first |-> <<47>>, second |-> "punctuator_div"],               \* /
     [first |-> <<47, 61>>, second |-> "punctuator_div_eq"],        \* /=
     [first |-> <<58>>, second |-> "punctuator_colon"],             \* :
     [first |-> <<59>>, second |-> "punctuator_semicol"],           \* ;
     [first |-> <<60>>, second |-> "punctuator_cmp_lt"],            \* <
     [first |-> <<60, 60>>, second |-> "punctuator_sla"],           \* <<
     [first |-> <<60, 60, 60>>, second |-> "punctuator_sll"],       \* <<<
     [first |-> <<60, 60, 60, 61>>, second |-> "punctuator_sll_eq"], \* <<<=
     [first |-> <<60, 60, 61>>, second |-> "punctuator_sla_eq"],    \* <<=
     [first |-> <<60, 61>>, second |-> "punctuator_cmp_lte"],       \* <=
     [first |-> <<60, 61, 62>>, second |-> "punctuator_spaceship"], \* <=>
     [first |-> <<61>>, second |-> "punctuator_assign"],            \* =
     [first |-> <<61, 61>>, second |-> "punctuator_cmp_eq"],        \* ==
     [first |-> <<62>>, second |-> "punctuator_cmp_gt"],            \* >
     [first |-> <<62, 61>>, second |-> "punctuator_cmp_gte"],       \* >=
     [first |-> <<62, 62>>, second |-> "punctuator_sra"],           \* >>
     [first |-> <<62, 62, 61>>, second |-> "punctuator_sra_eq"],    \* >>=
     [first |-> <<62, 62, 62>>, second |-> "punctuator_srl"],       \* >>>
     [first |-> <<62, 62, 62, 61>>, second |-> "punctuator_srl_eq"], \* >>>=
     [first |-> <<63>>, second |-> "punctuator_quest"],             \* ?
     [first |-> <<63, 61>>, second |-> "punctuator_quest_eq"],      \* ?=
     [first |-> <<63, 63>>, second |-> "punctuator_coales"],        \* ??
     [first |-> <<63, 63, 61>>, second |-> "punctuator_coales_eq"], \* ??=
     [first |-> <<91>>, second |-> "punctuator_bracket_op"],        \* [
     [first |-> <<93>>, second |-> "punctuator_bracket_cl"],        \* ]
     [first |-> <<94>>, second |-> "punctuator_xorb"],              \* ^
     [first |-> <<94, 61>>, second |-> "punctuator_xorb_eq"],       \* ^=
     [first |-> <<123>>, second |-> "punctuator_brace_op"],         \* {
     [first |-> <<124>>, second |-> "punctuator_orb"],              \* |
     [first |-> <<124, 61>>, second |-> "punctuator_orb_eq"],       \* |=
     [first |-> <<124, 124>>, second |-> "punctuator_orl"],         \* ||
     [first |-> <<124, 124, 61>>, second |-> "punctuator_orl_eq"],  \* ||=
     [first |-> <<125>>, second |-> "punctuator_brace_cl"],         \* }
     [first |-> <<126>>, second |-> "punctuator_notb"] >>           \* ~

\* Line 413: the letters and the underscore (53 bytes), then the digits.
s_name_chars ==
  <<65, 66, 67, 68, 69, 70, 71, 72, 73, 74, 75, 76, 77, 78, 79, 80, 81, 82,
    83, 84, 85, 86, 87, 88, 89, 90, 97, 98, 99, 100, 101, 102, 103, 104,
    105, 106, 107, 108, 109, 110, 111, 112, 113, 114, 115, 116, 117, 118,
    119, 120, 121, 122, 95, 48, 49, 50, 51, 52, 53, 54, 55, 56, 57>>

\* Lines 430-478.
s_keywords ==
  << [first |-> <<95, 95, 97, 98, 115>>, second |-> "keyword_abs"], \* __abs
     [first |-> <<95, 95, 99, 101, 105, 108>>, second |-> "keyword_ceil"], \* __ceil
     [first |-> <<95, 95, 102, 108, 111, 111, 114>>, second |-> "keyword_floor"], \* __floor
     [first |-> <<95, 95, 102, 109, 97>>, second |-> "keyword_fma"], \* __fma
     [first |-> <<95, 95, 105, 99, 101, 105, 108>>, second |-> "keyword_iceil"], \* __iceil
     [first |-> <<95, 95, 105, 102, 108, 111, 111, 114>>, second |-> "keyword_ifloor"], \* __ifloor
     [first |-> <<95, 95, 105, 114, 111, 117, 110, 100>>, second |-> "keyword_iround"], \* __iround
     [first |-> <<95, 95, 105, 115, 105, 110, 102>>, second |-> "keyword_isinf"], \* __isinf
     [first |-> <<95, 95, 105, 115, 110, 97, 110>>, second |-> "keyword_isnan"], \* __isnan
     [first |-> <<95, 95, 105, 116, 114, 117, 110, 99>>, second |-> "keyword_itrunc"], \* __itrunc
     [first |-> <<95, 95, 114, 111, 117, 110, 100>>, second |-> "keyword_round"], \* __round
     [first |-> <<95, 95, 115, 105, 103, 110, 98>>, second |-> "keyword_signb"], \* __signb
     [first |-> <<95, 95, 115, 113, 114, 116>>, second |-> "keyword_sqrt"], \* __sqrt
     [first |-> <<95, 95, 116, 114, 117, 110, 99>>, second |-> "keyword_trunc"], \* __trunc
     [first |-> <<97, 110, 100>>, second |-> "keyword_and"],        \* and
     [first |-> <<97, 115, 115, 101, 114, 116>>, second |-> "keyword_assert"], \* assert
     [first |-> <<98, 114, 101, 97, 107>>, second |-> "keyword_break"], \* break
     [first |-> <<99, 97, 115, 101>>, second |-> "keyword_case"],   \* case
     [first |-> <<99, 97, 116, 99, 104>>, second |-> "keyword_catch"], \* catch
     [first |-> <<99, 111, 110, 115, 116>>, second |-> "keyword_const"], \* const
     [first |-> <<99, 111, 110, 116, 105, 110, 117, 101>>, second |-> "keyword_continue"], \* continue
     [first |-> <<100, 101, 102, 97, 117, 108, 116>>, second |-> "keyword_default"], \* default
     [first |-> <<100, 101, 102, 101, 114>>, second |-> "keyword_defer"], \* defer
     [first |-> <<100, 111>>, second |-> "keyword_do"],             \* do
     [first |-> <<101, 97, 99, 104>>, second |-> "keyword_each"],   \* each
     [first |-> <<101, 108, 115, 101>>, second |-> "keyword_else"], \* else
     [first |-> <<102, 97, 108, 115, 101>>, second |-> "keyword_false"], \* false
     [first |-> <<102, 111, 114>>, second |-> "keyword_for"],       \* for
     [first |-> <<102, 117, 110, 99>>, second |-> "keyword_func"],  \* func
     [first |-> <<105, 102>>, second |-> "keyword_if"],             \* if
     [first |-> <<105, 110, 102, 105, 110, 105, 116, 121>>, second |-> "keyword_infinity"], \* infinity
     [first |-> <<108, 101, 110, 103, 116, 104, 111, 102>>, second |-> "keyword_lengthof"], \* lengthof
     [first |-> <<110, 97, 110>>, second |-> "keyword_nan"],        \* nan
     [first |-> <<110, 111, 116>>, second |-> "keyword_not"],       \* not
     [first |-> <<110, 117, 108, 108>>, second |-> "keyword_null"], \* null
     [first |-> <<111, 114>>, second |-> "keyword_or"],             \* or
     [first |-> <<114, 101, 116, 117, 114, 110>>, second |-> "keyword_return"], \* return
     [first |-> <<115, 119, 105, 116, 99, 104>>, second |-> "keyword_switch"], \* switch
     [first |-> <<116, 104, 105, 115>>, second |-> "keyword_this"], \* this
     [first |-> <<116, 104, 114, 111, 119>>, second |-> "keyword_throw"], \* throw
     [first |-> <<116, 114, 117, 101>>, second |-> "keyword_true"], \* true
     [first |-> <<116, 114, 121>>, second |-> "keyword_try"],       \* try
     [first |-> <<116, 121, 112, 101, 111, 102>>, second |-> "keyword_typeof"], \* typeof
     [first |-> <<117, 110, 115, 101, 116>>, second |-> "keyword_unset"], \* unset
     [first |-> <<118, 97, 114>>, second |-> "keyword_var"],        \* var
     [first |-> <<119, 104, 105, 108, 101>>, second |-> "keyword_while"] >> \* while

\* Line 659: the bytes that would begin a suffix.  std::strchr searches the
\* string with its terminating null, so the byte 0 is one of them.
s_suffix_chars ==
  <<65, 66, 67, 68, 69, 70, 71, 72, 73, 74, 75, 76, 77, 78, 79, 80, 81, 82,
    83, 84, 85, 86, 87, 88, 89, 90, 97, 98, 99, 100, 101, 102, 103, 104,
    105, 106, 107, 108, 109, 110, 111, 112, 113, 114, 115, 116, 117, 118,
    119, 120, 121, 122, 95, 0>>

\* ---- helpers ------------------------------------------------------------
\* std::char_traits<char>::find(s, n, ch): the place of the first ch among
\* the first n bytes of s, 0 when there is none.
Find(s, n, ch) ==
  IF \E i \in 1..n : s[i] = ch
  THEN CHOOSE i \in 1..n : s[i] = ch /\ \A j \in 1..(i - 1) : s[j] # ch
  ELSE 0

\* The bytes from place i on.
From(s, i) == SubSeq(s, i, Len(s))

\* ---- Line_Reader --------------------------------------------------------
\* Line 85-88.
size_avail(r) == Len(r.m_str) - r.m_offset

\* The line without the null byte that ends it: the byte that lies past the
\* end comes at once.
At_Unended(r, i) ==
  IF r.m_offset + i < Len(r.m_str) THEN r.m_str[r.m_offset + i + 1]
  ELSE IF r.m_offset + i = Len(r.m_str) THEN r.m_past ELSE 0

\* data_avail()[i]: the bytes of the line are followed by one null byte; a
\* read past that byte gives whatever lies there.
At(r, i) ==
  IF r.m_offset + i < Len(r.m_str) THEN r.m_str[r.m_offset + i + 1]
  ELSE IF r.m_offset + i = Len(r.m_str) THEN 0 ELSE r.m_past

\* The bytes that are left of the line.
Avail(r) == From(r.m_str, r.m_offset + 1)

\* Lines 89-95.
peek(r, add) == IF add > size_avail(r) THEN 0 ELSE At(r, add)

\* Lines 96-102, when no error is thrown.
consume(r, add) == [r EXCEPT !.m_offset = @ + add]

\* The reader stays where it is.
rewind_Stay(r, xoffset) == r

\* Lines 103-106.
rewind(r, xoffset) == [r EXCEPT !.m_offset = xoffset]

\* The place of the first line feed of buf from place i on, Len(buf) + 1
\* when there is none.
RECURSIVE LineEnd(_, _)
LineEnd(buf, i) ==
  IF i > Len(buf) \/ buf[i] = 10 THEN i ELSE LineEnd(buf, i + 1)

\* Lines 52-76: the line read, what is left of the streambuf, and whether a
\* line was read.
advance(r, buf) ==
  IF buf = <<>>
  THEN [more |-> FALSE, cbuf |-> buf,
        reader |-> [r EXCEPT !.m_str = <<>>, !.m_offset = 0]]
  ELSE LET e == LineEnd(buf, 1) IN
       [more |-> TRUE, cbuf |-> From(buf, e + 1),
        reader |-> [m_str |-> SubSeq(buf, 1, e - 1),
                    m_line |-> r.m_line + 1, m_offset |-> 0,
                    m_past |-> r.m_past]]

\* ---- Parser_Error, Tack, Token ------------------------------------------
\* Lines 109-116; a position is given as the number of bytes from
\* data_avail().
do_make_parser_error(r, length, code) ==
  [line |-> r.m_line, offset |-> r.m_offset, length |-> length, code |-> code]

NoError == [line |-> 0, offset |-> 0, length |-> 0, code |-> "code_success"]

\* Lines 144-147.
TackSet(t) == t.m_line # 0

\* The place after the bytes instead of the place of the bytes.
TackSetTo_After(r, xlength) ==
  [m_line |-> r.m_line, m_offset |-> r.m_offset + xlength,
   m_length |-> xlength]

\* Lines 148-154.
TackSetTo(r, xlength) ==
  [m_line |-> r.m_line, m_offset |-> r.m_offset, m_length |-> xlength]

\* Lines 155-159.
TackClear(t) == [t EXCEPT !.m_line = 0]

\* What an accepting function leaves: whether it took a token, the sequence
\* and the reader afterwards, the Parser_Error thrown if any, and how the
\* run was ended otherwise ("terminate", "runtime_error") if it was.
Rejected(sq, r) ==
  [got |-> FALSE, seq |-> sq, reader |-> r, err |-> NoError, abort |-> "none"]

Thrown(sq, r, e) ==
  [got |-> FALSE, seq |-> sq, reader |-> r, err |-> e, abort |-> "none"]

Aborted(sq, r, how) ==
  [got |-> FALSE, seq |-> sq, reader |-> r, err |-> NoError, abort |-> how]

\* Lines 162-166.
do_push_token(sq, r, length, kind, val) ==
  [got |-> TRUE,
   seq |-> Append(sq, [line |-> r.m_line, offset |-> r.m_offset,
                       length |-> length, kind |-> kind, val |-> val]),
   reader |-> consume(r, length),
   err |-> NoError,
   abort |-> IF length > size_avail(r) THEN "runtime_error" ELSE "none"]

\* ---- do_accept_punctuator -----------------------------------------------
\* std::equal_range with Prefix_Comparator (lines 174-181, 261): the entries
\* from lo to hi - 1 are those whose first byte neither precedes ch nor
\* follows it.
equal_range(table, ch) ==
  LET N == Len(table)
      lo == CHOOSE i \in 1..(N + 1) :
              /\ i = N + 1 \/ ~(table[i].first[1] < ch)
              /\ \A j \in 1..(i - 1) : table[j].first[1] < ch
      hi == CHOOSE i \in 1..(N + 1) :
              /\ i = N + 1 \/ ch < table[i].first[1]
              /\ \A j \in 1..(i - 1) : ~(ch < table[j].first[1])
  IN <<lo, hi>>

\* std::char_traits<char>::compare(bptr, s, n) == 0.
SameBytes(r, s, n) == \A i \in 1..n : At(r, i - 1) = s[i]

\* The loop taking the entries of the range from the front.
RECURSIVE Scan_Forward(_, _, _)
Scan_Forward(r, lo, hi) ==
  IF lo = hi THEN 0
  ELSE LET cur == s_punctuators[lo]
           tlen == Len(cur.first)
       IN IF tlen <= size_avail(r) /\ SameBytes(r, cur.first, tlen)
          THEN lo
          ELSE Scan_Forward(r, lo + 1, hi)

\* The loop with a lexeme that must end before the end of the line (line 267
\* with < for <=).
RECURSIVE Scan_Strict(_, _, _)
Scan_Strict(r, lo, hi) ==
  IF lo = hi THEN 0
  ELSE LET cur == s_punctuators[hi - 1]
           tlen == Len(cur.first)
       IN IF tlen < size_avail(r) /\ SameBytes(r, cur.first, tlen)
          THEN hi - 1
          ELSE Scan_Strict(r, lo, hi - 1)

\* Lines 262-275: the entry that the loop finds, 0 when the range is
\* exhausted.
RECURSIVE Scan(_, _, _)
Scan(r, lo, hi) ==
  IF lo = hi THEN 0
  ELSE LET cur == s_punctuators[hi - 1]
           tlen == Len(cur.first)
       IN IF tlen <= size_avail(r) /\ SameBytes(r, cur.first, tlen)
          THEN hi - 1
          ELSE Scan(r, lo, hi - 1)

\* Lines 184-279.
do_accept_punctuator(sq, r) ==
  IF Find(s_punct_chars, Len(s_punct_chars), At(r, 0)) = 0
  THEN Rejected(sq, r)
  ELSE LET range == equal_range(s_punctuators, At(r, 0))
           k == Scan(r, range[1], range[2])
       IN IF k = 0 THEN Aborted(sq, r, "terminate")
          ELSE do_push_token(sq, r, Len(s_punctuators[k].first),
                             "punctuator", s_punctuators[k].second)

\* ---- utf8_decode, utf8_encode -------------------------------------------
\* The bytes of the UTF-8 sequence of code point cp, <<>> when cp is a
\* surrogate or lies above 0x10FFFF.
utf8_encode(cp) ==
  IF cp < 128 THEN <<cp>>
  ELSE IF cp < 2048 THEN <<192 + (cp \div 64), 128 + (cp % 64)>>
  ELSE IF cp \in 55296..57343 THEN <<>>
  ELSE IF cp < 65536
    THEN <<224 + (cp \div 4096), 128 + ((cp \div 64) % 64), 128 + (cp % 64)>>
  ELSE IF cp <= 1114111
    THEN <<240 + (cp \div 262144), 128 + ((cp \div 4096) % 64),
           128 + ((cp \div 64) % 64), 128 + (cp % 64)>>
  ELSE <<>>

\* The code point that the bytes s begin with and the number of its bytes.
\* The number is 0 when s does not begin with a valid sequence; most is then
\* the number of bytes that the sequence would have had, as far as s has
\* them: the call has looked at no byte beyond these.
utf8_decode(s) ==
  LET b == s[1]
      n == IF b < 128 THEN 1 ELSE IF b \in 192..223 THEN 2
           ELSE IF b \in 224..239 THEN 3 ELSE IF b \in 240..247 THEN 4 ELSE 0
      Cont(i) == i <= Len(s) /\ s[i] \in 128..191
      cp == CASE n = 1 -> b
              [] n = 2 -> (b - 192) * 64 + (s[2] - 128)
              [] n = 3 -> (b - 224) * 4096 + (s[2] - 128) * 64 + (s[3] - 128)
              [] n = 4 -> (b - 240) * 262144 + (s[2] - 128) * 4096
                          + (s[3] - 128) * 64 + (s[4] - 128)
              [] OTHER -> 0
      Invalid == [cp |-> 0, len |-> 0,
                  most |-> IF n = 0 THEN 1 ELSE IF n < Len(s) THEN n ELSE Len(s)]
  IN IF n = 0 \/ ~(\A i \in 2..n : Cont(i)) THEN Invalid
     ELSE IF utf8_encode(cp) = SubSeq(s, 1, n)
       THEN [cp |-> cp, len |-> n, most |-> n]
     ELSE Invalid

\* ---- do_accept_string_literal -------------------------------------------
\* Lines 321-356: the byte that a one-letter escape sequence stands for, -1
\* when the letter is none of them.
SimpleEscape(next) ==
  CASE next \in {39, 34, 92, 63} -> next
    [] next = 97 -> 7
    [] next = 98 -> 8
    [] next = 102 -> 12
    [] next = 110 -> 10
    [] next = 114 -> 13
    [] next = 116 -> 9
    [] next = 118 -> 11
    [] next = 48 -> 0
    [] next = 90 -> 26
    [] next = 101 -> 27
    [] OTHER -> -1

\* Lines 357-364.
HexCount(next) ==
  CASE next = 85 -> 6 [] next = 117 -> 4 [] next = 120 -> 2 [] OTHER -> 0

\* Lines 369-377: the code point of the digits from offset i to offset e - 1,
\* with cp read so far; -(i + 1) when the byte at offset i is no digit.
RECURSIVE HexDigits(_, _, _, _)
HexDigits(r, i, e, cp) ==
  IF i = e THEN cp
  ELSE LET d == Find(s_digits, 32, At(r, i)) IN
       IF d = 0 THEN 0 - (i + 1)
       ELSE HexDigits(r, i + 1, e, cp * 16 + (d - 1) \div 2)

\* Lines 296-393: the loop, tlen bytes of the literal being read and value
\* being decoded so far.  It ends with the length of the literal and its
\* value, or with the Parser_Error thrown.
RECURSIVE StringBody(_, _, _, _)
StringBody(r, head, tlen, value) ==
  LET qavail == size_avail(r) - tlen
      next == At(r, tlen)
      esc == At(r, tlen + 1)
      xcnt == HexCount(esc)
      cp == HexDigits(r, tlen + 2, tlen + 2 + xcnt, 0)
      Err(length, code) ==
        [err |-> do_make_parser_error(r, length, code), tlen |-> 0,
         value |-> <<>>]
  IN
  IF qavail = 0
    THEN Err(size_avail(r), "code_string_literal_unclosed")
  ELSE IF next = head
    THEN [err |-> NoError, tlen |-> tlen + 1, value |-> value]
  ELSE IF next # 92
    THEN StringBody(r, head, tlen + 1, Append(value, next))
  ELSE IF qavail < 2
    THEN Err(size_avail(r), "code_escape_sequence_incomplete")
  ELSE IF SimpleEscape(esc) >= 0
    THEN StringBody(r, head, tlen + 2, Append(value, SimpleEscape(esc)))
  ELSE IF xcnt = 0
    THEN Err(tlen + 2, "code_escape_sequence_unknown")
  ELSE IF qavail < xcnt + 2
    THEN Err(size_avail(r), "code_escape_sequence_incomplete")
  ELSE IF cp < 0
    THEN Err(0 - cp, "code_escape_sequence_invalid_hex")
  ELSE IF esc = 120
    THEN StringBody(r, head, tlen + 2 + xcnt, Append(value, cp))
  ELSE IF utf8_encode(cp) = <<>>
    THEN Err(tlen + 2 + xcnt, "code_escape_utf_code_point_invalid")
  ELSE StringBody(r, head, tlen + 2 + xcnt, value \o utf8_encode(cp))

\* Lines 396-402.
RawBody(r, head) ==
  LET k == Find(From(Avail(r), 2), size_avail(r) - 1, head) IN
  IF k = 0
  THEN [err |-> do_make_parser_error(r, size_avail(r),
                                     "code_string_literal_unclosed"),
        tlen |-> 0, value |-> <<>>]
  ELSE [err |-> NoError, tlen |-> k + 1,
        value |-> SubSeq(Avail(r), 2, k)]

\* Lines 281-407.
do_accept_string_literal(sq, r, head, escapable) ==
  IF At(r, 0) # head THEN Rejected(sq, r)
  ELSE LET b == IF escapable THEN StringBody(r, head, 1, <<>>)
                ELSE RawBody(r, head)
       IN IF b.err # NoError THEN Thrown(sq, r, b.err)
          ELSE do_push_token(sq, r, b.tlen, "string_literal", b.value)

\* ---- do_accept_identifier_or_keyword ------------------------------------
\* std::find_if_not over the bytes from offset i on (lines 420, 609): the
\* offset of the first byte that is not among the first n bytes of s and is
\* not one of the bytes of also, or the size of the line.
RECURSIVE SkipWhile(_, _, _, _, _)
SkipWhile(r, i, s, n, also) ==
  IF i >= size_avail(r) THEN size_avail(r)
  ELSE IF At(r, i) \in also \/ Find(s, n, At(r, i)) # 0
    THEN SkipWhile(r, i + 1, s, n, also)
  ELSE i

\* Lines 482-496: the entry of the range that is the identifier of tlen
\* bytes, 0 when there is none.
RECURSIVE FindKeyword(_, _, _, _)
FindKeyword(r, tlen, lo, hi) ==
  IF lo = hi THEN 0
  ELSE IF Len(s_keywords[lo].first) = tlen
          /\ SameBytes(r, s_keywords[lo].first, tlen)
    THEN lo
  ELSE FindKeyword(r, tlen, lo + 1, hi)

\* Lines 409-501.
do_accept_identifier_or_keyword(sq, r, keyword_as_identifier) ==
  IF Find(s_name_chars, 53, At(r, 0)) = 0 THEN Rejected(sq, r)
  ELSE LET tlen == SkipWhile(r, 0, s_name_chars, 63, {})
           range == equal_range(s_keywords, At(r, 0))
           k == IF keyword_as_identifier THEN 0
                ELSE FindKeyword(r, tlen, range[1], range[2])
       IN IF k # 0
          THEN do_push_token(sq, r, tlen, "keyword", s_keywords[k].second)
          ELSE do_push_token(sq, r, tlen, "identifier",
                             SubSeq(Avail(r), 1, tlen))

\* ---- do_check_mergeability ----------------------------------------------
\* Lines 514-517 left out: a sign is taken wherever it ends on the line.
do_check_mergeability_Apart(sq, r) ==
  LET qstok == sq[Len(sq)]
      pt == sq[Len(sq) - 1]
  IN
  IF sq = <<>> THEN FALSE
  ELSE IF qstok.line # r.m_line THEN FALSE
  ELSE IF qstok.kind # "punctuator" THEN FALSE
  ELSE IF qstok.val \notin {"punctuator_add", "punctuator_sub"} THEN FALSE
  ELSE IF Len(sq) < 2 THEN TRUE
  ELSE IF pt.kind = "keyword"
    THEN pt.val \notin {"keyword_null", "keyword_true", "keyword_false",
                        "keyword_nan", "keyword_infinity", "keyword_this"}
  ELSE IF pt.kind = "punctuator"
    THEN pt.val \notin {"punctuator_inc", "punctuator_dec",
                        "punctuator_parenth_cl", "punctuator_bracket_cl",
                        "punctuator_brace_cl"}
  ELSE FALSE

\* Lines 503-546: whether the function returns the last token (TRUE) or a
\* null pointer.
do_check_mergeability(sq, r) ==
  LET qstok == sq[Len(sq)]
      pt == sq[Len(sq) - 1]
  IN
  IF sq = <<>> THEN FALSE
  ELSE IF qstok.line # r.m_line THEN FALSE
  ELSE IF qstok.offset + qstok.length # r.m_offset THEN FALSE
  ELSE IF qstok.kind # "punctuator" THEN FALSE
  ELSE IF qstok.val \notin {"punctuator_add", "punctuator_sub"} THEN FALSE
  ELSE IF Len(sq) < 2 THEN TRUE
  ELSE IF pt.kind = "keyword"
    THEN pt.val \notin {"keyword_null", "keyword_true", "keyword_false",
                        "keyword_nan", "keyword_infinity", "keyword_this"}
  ELSE IF pt.kind = "punctuator"
    THEN pt.val \notin {"punctuator_inc", "punctuator_dec",
                        "punctuator_parenth_cl", "punctuator_bracket_cl",
                        "punctuator_brace_cl"}
  ELSE FALSE

\* ---- 64-bit and unbounded arithmetic ------------------------------------
\* A std::uint64_t is the tuple of its four 16-bit digits, the lowest one
\* first; a natural number of any size is the sequence of its 16-bit digits,
\* the lowest one first and the highest one not 0.
Radix == 65536

U64(n) == <<n % Radix, n \div Radix, 0, 0>>

\* 0x8000000000000000.
Two63 == <<0, 0, 0, 32768>>

\* v * b + d in 64 bits, for b and d below 2^15.
MulAdd64(v, b, d) ==
  LET t1 == v[1] * b + d
      t2 == v[2] * b + t1 \div Radix
      t3 == v[3] * b + t2 \div Radix
      t4 == v[4] * b + t3 \div Radix
  IN <<t1 % Radix, t2 % Radix, t3 % Radix, t4 % Radix>>

\* a - b in 64 bits.
Sub64(a, b) ==
  LET d1 == a[1] - b[1]
      d2 == a[2] - b[2] - B(d1 < 0)
      d3 == a[3] - b[3] - B(d2 < 0)
      d4 == a[4] - b[4] - B(d3 < 0)
  IN <<d1 % Radix, d2 % Radix, d3 % Radix, d4 % Radix>>

\* a / b for b below 2^15.
Div64(a, b) ==
  LET r4 == a[4] % b
      r3 == (r4 * Radix + a[3]) % b
      r2 == (r3 * Radix + a[2]) % b
  IN <<(r2 * Radix + a[1]) \div b, (r3 * Radix + a[2]) \div b,
       (r4 * Radix + a[3]) \div b, a[4] \div b>>

\* a < b.
Less64(a, b) ==
  \E i \in 1..4 : a[i] < b[i] /\ \A j \in (i + 1)..4 : a[j] = b[j]

\* The natural number without the zeros above its highest digit.
Norm(n) ==
  SubSeq(n, 1, CHOOSE k \in 0..Len(n) :
                 /\ k = 0 \/ n[k] # 0
                 /\ \A j \in (k + 1)..Len(n) : n[j] = 0)

\* n * b + c for b and c up to 2^15.
NMulAdd(n, b, c) ==
  LET RECURSIVE Part(_, _, _), Join(_, _, _)
      \* the digits lo to hi of the result after the carry c, and then the
      \* carry out of them
      Part(lo, hi, carry) ==
        IF lo > hi THEN <<carry>>
        ELSE IF lo = hi
          THEN <<(n[lo] * b + carry) % Radix, (n[lo] * b + carry) \div Radix>>
        ELSE Join(((lo + hi) \div 2) + 1, hi, Part(lo, (lo + hi) \div 2, carry))
      Join(mid, hi, low) ==
        SubSeq(low, 1, Len(low) - 1) \o Part(mid, hi, low[Len(low)])
      NoZero(r) == IF r[Len(r)] = 0 THEN SubSeq(r, 1, Len(r) - 1) ELSE r
  IN NoZero(Part(1, Len(n), c))

\* n * b^e.
RECURSIVE NScale(_, _, _)
NScale(n, b, e) ==
  IF e <= 0 \/ n = <<>> THEN n
  ELSE IF e = 1 THEN Norm(NMulAdd(n, b, 0))
  ELSE NScale(NScale(n, b, e \div 2), b, e - (e \div 2))

\* n * 2^e.
NShift(n, e) ==
  IF n = <<>> THEN n
  ELSE [i \in 1..(e \div 16) |-> 0] \o NScale(n, 2, e % 16)

\* a <= b.
NLeq(a, b) ==
  \/ Len(a) < Len(b)
  \/ /\ Len(a) = Len(b)
     /\ \/ a = b
        \/ \E i \in 1..Len(a) : a[i] < b[i] /\ \A j \in (i + 1)..Len(a) : a[j] = b[j]

\* ---- do_accept_numeric_literal ------------------------------------------
\* The loops without the test of lines 669 and 697: a byte that is no digit
\* counts as the digit 0.
RECURSIVE DigitsOf_Counted(_, _, _, _)
DigitsOf_Counted(r, i, e, n) ==
  IF i >= e THEN <<>>
  ELSE LET d == Find(s_digits, n, At(r, i)) IN
       (IF d = 0 THEN <<0>> ELSE <<(d - 1) \div 2>>)
         \o DigitsOf_Counted(r, i + 1, e, n)

\* The values of the digits among the bytes from offset i to offset e - 1,
\* a digit being one of the first n bytes of s_digits (lines 668-672,
\* 696-700): the other bytes are passed over.
RECURSIVE DigitsOf(_, _, _, _)
DigitsOf(r, i, e, n) ==
  IF i >= e THEN <<>>
  ELSE LET d == Find(s_digits, n, At(r, i)) IN
       (IF d = 0 THEN <<>> ELSE <<(d - 1) \div 2>>) \o DigitsOf(r, i + 1, e, n)

\* Lines 665-681: the exponent of the digits ds, exp being read so far; -1
\* when line 676 throws.
RECURSIVE ParseExp(_, _)
ParseExp(ds, exp) ==
  IF ds = <<>> THEN exp
  ELSE IF exp > (2147483647 - Head(ds)) \div 10 THEN -1
  ELSE ParseExp(Tail(ds), exp * 10 + Head(ds))

\* The loop without the test of lines 702-705: the value wraps around.
RECURSIVE IntDigits_Unchecked(_, _, _)
IntDigits_Unchecked(ds, rbase, value) ==
  IF ds = <<>> THEN value
  ELSE IntDigits_Unchecked(Tail(ds), rbase, MulAdd64(value, rbase, Head(ds)))

\* Lines 694-709: the value of the digits ds, value being read so far; <<>>
\* when line 704 throws.
RECURSIVE IntDigits(_, _, _)
IntDigits(ds, rbase, value) ==
  IF ds = <<>> THEN value
  ELSE IF Less64(Div64(Sub64(Two63, U64(Head(ds))), rbase), value) THEN <<>>
  ELSE IntDigits(Tail(ds), rbase, MulAdd64(value, rbase, Head(ds)))

\* Lines 712-720: value multiplied exp - i times by pbase; <<>> when line
\* 716 throws.
RECURSIVE IntPower(_, _, _, _)
IntPower(value, pbase, i, exp) ==
  IF i >= exp THEN value
  ELSE IF Less64(Div64(Two63, pbase), value) THEN <<>>
  ELSE IntPower(MulAdd64(value, pbase, 0), pbase, i + 1, exp)

\* Lines 744, 756, 769: the flag after the digits ds.
RECURSIVE ZeroFlag(_, _)
ZeroFlag(ds, zero) ==
  IF ds = <<>> THEN zero ELSE ZeroFlag(Tail(ds), zero \/ Head(ds) # 0)

\* The natural number that the digits ds of base rbase write, after n.
RECURSIVE NDigits(_, _, _)
NDigits(ds, rbase, n) ==
  IF ds = <<>> THEN n
  ELSE NDigits(Tail(ds), rbase, Norm(NMulAdd(n, rbase, Head(ds))))

\* ---- long double and double ---------------------------------------------
\* A binary floating-point number is the record of its significand m, a
\* natural number, and of the exponent e of the lowest bit of m: it is
\* m * 2^e.  Zero has the significand <<>>.

\* The quotient q and the remainder r of n by c, for c up to 2^15.
NQuot(n, c) ==
  LET RECURSIVE Part(_, _, _), Join(_, _, _)
      \* the digits hi down to lo of the quotient after the remainder r, and
      \* then the remainder that they leave
      Part(lo, hi, r) ==
        IF lo > hi THEN <<r>>
        ELSE IF lo = hi THEN <<(r * Radix + n[lo]) \div c, (r * Radix + n[lo]) % c>>
        ELSE Join(lo, (lo + hi) \div 2, Part(((lo + hi) \div 2) + 1, hi, r))
      Join(lo, mid, high) ==
        SubSeq(high, 1, Len(high) - 1) \o Part(lo, mid, high[Len(high)])
      Lowest(d) ==
        [q |-> Norm([i \in 1..Len(n) |-> d[Len(n) + 1 - i]]),
         r |-> d[Len(n) + 1]]
  IN Lowest(Part(1, Len(n), 0))

\* The result that an operation of exact value x delivers in a format that
\* has p bits of significand and no bit below 2^emin: the nearest number of
\* the format, the one with the even significand when two are as near.  top
\* is the exponent of the highest bit of the result.  With far, it is the
\* result of an operation that misses the nearest number by the last bit:
\* when x is no number of the format, the number next to x on the side
\* where the nearest number is not.
RoundTo(x, p, emin, far) ==
  LET m == x.m
      Bits(n) ==
        16 * (Len(n) - 1)
          + (CHOOSE k \in 1..16 : n[Len(n)] < 2^k /\ 2 * n[Len(n)] >= 2^k)
      \* the bits that are kept, and the bits that are dropped
      keep == IF x.e + Bits(m) - p >= emin THEN p ELSE x.e + Bits(m) - emin
      k == Bits(m) - keep
      Bit(i) == (m[(i \div 16) + 1] \div 2^(i % 16)) % 2
      Low(i) ==
        \E j \in 1..((i \div 16) + 1) :
          IF j <= i \div 16 THEN m[j] # 0 ELSE m[j] % 2^(i % 16) # 0
      High(rest, r) ==
        Norm([i \in 1..Len(rest) |->
                (rest[i] \div 2^r)
                  + ((IF i < Len(rest) THEN rest[i + 1] ELSE 0) % 2^r)
                      * 2^(16 - r)])
      Up(hi) == Bit(k - 1) = 1 /\ (Low(k - 1) \/ (hi # <<>> /\ hi[1] % 2 = 1))
      Above(hi) ==
        IF far THEN (Bit(k - 1) = 1 \/ Low(k - 1)) /\ ~Up(hi) ELSE Up(hi)
      Result(n, e) ==
        IF n = <<>> THEN [m |-> <<>>, e |-> 0, top |-> 0]
        ELSE [m |-> n, e |-> e, top |-> e + Bits(n) - 1]
      Nearest(hi) ==
        Result(IF Above(hi) THEN Norm(NMulAdd(hi, 1, 1)) ELSE hi, x.e + k)
  IN
  IF m = <<>> \/ keep < 0 THEN Result(<<>>, 0)
  ELSE IF k <= 0 THEN Result(m, x.e)
  ELSE Nearest(High(SubSeq(m, (k \div 16) + 1, Len(m)), k % 16))

\* Line 772 and the results of lines 775 and 777: the binary64 that an
\* operation of exact value x delivers, with its class.  FP_NORMAL stands
\* for every finite value other than zero.  The operation rounds to the
\* nearest binary64; with far, it is one that misses the nearest binary64 by
\* the last bit when that one is finite and not zero.
binary64(x, far) ==
  LET Class(y) ==
        IF y.m = <<>> THEN [cls |-> "FP_ZERO", m |-> <<>>, e |-> 0]
        ELSE IF y.top >= 1024 THEN [cls |-> "FP_INFINITE", m |-> <<>>, e |-> 0]
        ELSE [cls |-> "FP_NORMAL", m |-> y.m, e |-> y.e]
  IN Class(RoundTo(x, 53, -1074, far))

\* Line 777: std::pow(b, exp) for the integers b >= 0 and exp.  The result
\* of std::pow need not be the binary64 nearest to the power: the library
\* lib gives the nearest one ("nearest") or, when the power is no binary64,
\* the one next to the power on the other side ("other"); a power whose
\* nearest binary64 is zero or infinite gives that.  A base of 2 or more
\* that has w + 1 bits makes a power of 2^1025 or more when w * exp >= 1025
\* and one of 2^-1076 or less when w * exp <= -1076.
pow(b, exp, lib) ==
  LET \* the binary64 that the library gives for the exact value x, y being
      \* the nearest one and z the one on the other side
      Given(y, z) == IF lib = "nearest" \/ y.cls # "FP_NORMAL" THEN y ELSE z
      Power(x) == Given(binary64(x, FALSE), binary64(x, TRUE))
      \* the quotient of x.q by b^n, x.s telling whether a remainder was
      \* left on the way
      Left(s, y) == [q |-> y.q, s |-> s \/ y.r # 0]
      RECURSIVE Down(_, _)
      Down(x, n) ==
        IF n = 0 \/ x.q = <<>> THEN x
        ELSE IF n = 1 THEN Left(x.s, NQuot(x.q, b))
        ELSE Down(Down(x, n \div 2), n - (n \div 2))
      \* 2^(16 * n) / b^(-exp) is 2^64 or more
      n == Len(NScale(<<1>>, b, 0 - exp)) + 4
      Inverse(x) ==
        Power([m |-> Norm(NMulAdd(x.q, 2, B(x.s))), e |-> 0 - 16 * n - 1])
      w == CHOOSE k \in 1..30 : 2^k <= b /\ b \div 2 < 2^k
  IN
  IF exp = 0 \/ b = 1 THEN [cls |-> "FP_NORMAL", m |-> <<1>>, e |-> 0]
  ELSE IF b = 0
    THEN (IF exp > 0 THEN [cls |-> "FP_ZERO", m |-> <<>>, e |-> 0]
          ELSE [cls |-> "FP_INFINITE", m |-> <<>>, e |-> 0])
  ELSE IF exp >= (1024 \div w) + 1
    THEN [cls |-> "FP_INFINITE", m |-> <<>>, e |-> 0]
  ELSE IF exp > 0 THEN Power([m |-> NScale(<<1>>, b, exp), e |-> 0])
  ELSE IF 0 - exp >= (1075 \div w) + 1
    THEN [cls |-> "FP_ZERO", m |-> <<>>, e |-> 0]
  ELSE Inverse(Down([q |-> [i \in 1..n |-> 0] \o <<1>>, s |-> FALSE],
                    0 - exp))

\* Lines 742-780: the class of the value that the digits ds of the integral
\* part and fds of the fractional part, of base rbase, and the exponent exp
\* of base pbase come to.  intg and frac are long doubles of the x87 format:
\* a significand of 64 bits, no bit below 2^-16445, infinite from 2^16384
\* on.  Every operation on them rounds, and their sum is rounded again when
\* it is made a double; std::ldexp rounds once, the product rounds once, and
\* std::pow is that of the library lib.
FpClass(ds, fds, rbase, pbase, exp, lib) ==
  LET Ld(x) == RoundTo(x, 64, -16445, FALSE)
      \* a + b: a carry reaches the digit i from the nearest digit below it
      \* whose sum is not Radix - 1
      NAdd(a, b) ==
        LET n == IF Len(a) < Len(b) THEN Len(b) ELSE Len(a)
            At2(i) == (IF i <= Len(a) THEN a[i] ELSE 0)
                        + (IF i <= Len(b) THEN b[i] ELSE 0)
            Carry(i) ==
              \E j \in 1..(i - 1) :
                /\ At2(j) >= Radix
                /\ \A l \in (j + 1)..(i - 1) : At2(l) = Radix - 1
        IN Norm([i \in 1..(n + 1) |-> (At2(i) + B(Carry(i))) % Radix])
      Digit(dvalue) == [m |-> IF dvalue = 0 THEN <<>> ELSE <<dvalue>>, e |-> 0]
      Sum(x, y) ==
        IF x.m = <<>> THEN y
        ELSE IF y.m = <<>> THEN x
        ELSE LET e == IF x.e < y.e THEN x.e ELSE y.e IN
             [m |-> NAdd(NShift(x.m, x.e - e), NShift(y.m, y.e - e)), e |-> e]
      Times(x, n) == [m |-> Norm(NMulAdd(x.m, n, 0)), e |-> x.e]
      \* line 766
      Inexact(d) == Norm(NMulAdd(d.q, 2, B(d.r # 0)))
      Over(x) ==
        IF x.m = <<>> THEN x
        ELSE [m |-> Inexact(NQuot(NShift(x.m, 80), rbase)), e |-> x.e - 81]
      \* lines 745-757; an infinite intg stays infinite
      RECURSIVE Intg(_, _)
      Intg(s, intg) ==
        IF s = <<>> \/ intg.top >= 16384 THEN intg
        ELSE Intg(Tail(s), Ld(Sum(Ld(Times(intg, rbase)), Digit(Head(s)))))
      \* lines 758-770; a frac of zero stays zero under the digit 0
      RECURSIVE Frac(_, _)
      Frac(s, frac) ==
        IF s = <<>> THEN frac
        ELSE IF frac.m = <<>> /\ s[Len(s)] = 0
          THEN Frac(SubSeq(s, 1, Len(s) - 1), frac)
        ELSE Frac(SubSeq(s, 1, Len(s) - 1),
                  Ld(Over(Ld(Sum(frac, Digit(s[Len(s)]))))))
      \* the product of two significands
      Limb(a, n) ==
        NAdd(NMulAdd(a, n % 256, 0), NShift(Norm(NMulAdd(a, n \div 256, 0)), 8))
      RECURSIVE Product(_, _)
      Product(a, b) ==
        IF b = <<>> THEN <<>>
        ELSE NAdd(Limb(a, Head(b)), <<0>> \o Product(a, Tail(b)))
      \* line 775: an exponent beyond 40000 does what 40000 does
      ldexp(value) ==
        IF value.cls # "FP_NORMAL" THEN value
        ELSE binary64([m |-> value.m,
                       e |-> value.e + (IF exp > 40000 THEN 40000
                                        ELSE IF exp < -40000 THEN -40000
                                        ELSE exp)],
                      FALSE)
      \* line 777
      Multiplied(value, power) ==
        IF value.cls = "FP_ZERO" /\ power.cls = "FP_INFINITE"
          THEN [cls |-> "FP_NAN", m |-> <<>>, e |-> 0]
        ELSE IF value.cls = "FP_INFINITE" /\ power.cls = "FP_ZERO"
          THEN [cls |-> "FP_NAN", m |-> <<>>, e |-> 0]
        ELSE IF value.cls # "FP_NORMAL" THEN value
        ELSE IF power.cls # "FP_NORMAL" THEN power
        ELSE binary64([m |-> Norm(Product(value.m, power.m)),
                       e |-> value.e + power.e], FALSE)
      Scaled(value) ==
        IF pbase = 2 THEN ldexp(value)
        ELSE Multiplied(value, pow(pbase, exp, lib))
  IN
  Scaled(binary64(Ld(Sum(Intg(ds, Ld(Digit(0))), Frac(fds, Ld(Digit(0))))),
                  FALSE)).cls

\* Lines 591-684: where the parts of the literal that begins at the reader
\* are (offsets from the reader), its bases and its exponent, and the error
\* thrown on the way ("code_success" and 0 when there is none).
Literal(r) ==
  LET eptr == size_avail(r)
      \* lines 592-607
      rbase == IF At(r, 0) # 48 THEN 10
               ELSE IF At(r, 1) \in {66, 98} THEN 2
               ELSE IF At(r, 1) \in {88, 120} THEN 16 ELSE 10
      bintg == IF rbase = 10 THEN 0 ELSE 2
      rdigits == rbase * 2
      \* lines 609-623
      eintg == SkipWhile(r, bintg, s_digits, rdigits, {96})
      dot == At(r, eintg) = 46
      bfrac == IF dot THEN eintg + 1 ELSE eintg
      efrac == IF dot THEN SkipWhile(r, bfrac, s_digits, rdigits, {96})
               ELSE eintg
      \* lines 625-655
      pbase == IF At(r, efrac) \in {69, 101} THEN 10
               ELSE IF At(r, efrac) \in {80, 112} THEN 2 ELSE 0
      sign == IF pbase = 0 THEN 0 ELSE At(r, efrac + 1)
      bexp == IF pbase = 0 THEN efrac
              ELSE IF sign \in {43, 45} THEN efrac + 2 ELSE efrac + 1
      eexp == IF pbase = 0 THEN efrac
              ELSE SkipWhile(r, bexp, s_digits, 20, {96})
      \* lines 656-663
      bsfx == SkipWhile(r, eexp, s_suffix_chars, 54, {})
      \* lines 665-684
      uexp == ParseExp(DigitsOf(r, bexp, eexp, 20), 0)
      Is(code, length) ==
        [code |-> code, length |-> length, rbase |-> rbase, pbase |-> pbase,
         bintg |-> bintg, eintg |-> eintg, bfrac |-> bfrac, efrac |-> efrac,
         bexp |-> bexp,
         eexp |-> eexp, exp |-> IF sign = 45 THEN 0 - uexp ELSE uexp,
         digits |-> DigitsOf(r, bintg, eintg, rdigits),
         fdigits |-> DigitsOf(r, bfrac, efrac, rdigits),
         fraction |-> bfrac # efrac]
  IN
  IF eintg = bintg THEN Is("code_numeric_literal_incomplete", eintg)
  ELSE IF dot /\ efrac = bfrac
    THEN Is("code_numeric_literal_incomplete", efrac)
  ELSE IF pbase # 0 /\ eexp = bexp
    THEN Is("code_numeric_literal_incomplete", eexp)
  ELSE IF eexp # eptr /\ bsfx # eexp
    THEN Is("code_numeric_literal_suffix_disallowed", bsfx)
  ELSE IF uexp < 0 THEN Is("code_numeric_literal_exponent_overflow", eexp)
  ELSE Is("code_success", 0)

\* Lines 548-802, std::pow rounding as libm.cur says.
do_accept_numeric_literal(sq, r, integer_as_real) ==
  LET Err(length, code) == Thrown(sq, r, do_make_parser_error(r, length, code))
      \* lines 729-738, 791-800
      Push(qstok, eexp, kind, val) ==
        IF qstok
        THEN do_push_token(SubSeq(sq, 1, Len(sq) - 1),
                           rewind(r, sq[Len(sq)].offset),
                           r.m_offset + eexp - sq[Len(sq)].offset,
                           kind, val)
        ELSE do_push_token(sq, r, eexp, kind, val)
      \* lines 686-739: v1 is the value after the digits, v2 after the power
      Integer(qstok, rneg, lit, v1, v2) ==
        IF lit.exp < 0
          THEN Err(lit.eexp, "code_integer_literal_exponent_negative")
        ELSE IF v1 = <<>> \/ v2 = <<>>
          THEN Err(lit.eexp, "code_integer_literal_overflow")
        ELSE IF v2 = Two63 /\ ~rneg
          THEN Err(lit.eexp, "code_integer_literal_overflow")
        ELSE Push(qstok, lit.eexp, "integer_literal",
                  IF rneg THEN Sub64(U64(0), v2) ELSE v2)
      Power(qstok, rneg, lit, v1) ==
        Integer(qstok, rneg, lit, v1,
                IF v1 # <<>> /\ v1 # U64(0) /\ lit.pbase >= 2
                THEN IntPower(v1, lit.pbase, 0, lit.exp)
                ELSE v1)
      \* lines 742-800.  The product of line 777 is the default NaN of the
      \* processor when one factor is zero and the other infinite, and the
      \* sign bit of that NaN is set; it passes lines 780-786 and line
      \* 788-790 negates it as any other value.
      Real(qstok, rneg, lit, zero, num, fpcls) ==
        IF fpcls = "FP_INFINITE"
          THEN Err(lit.eexp, "code_real_literal_overflow")
        ELSE IF fpcls = "FP_ZERO" /\ ~zero
          THEN Err(lit.eexp, "code_real_literal_underflow")
        ELSE Push(qstok, lit.eexp, "real_literal",
                  [fpclass |-> fpcls, negative |-> (fpcls = "FP_NAN") # rneg,
                   digits |-> num,
                   rbase |-> lit.rbase, nfrac |-> Len(lit.fdigits),
                   pbase |-> lit.pbase, exp |-> lit.exp])
      Class(qstok, rneg, lit, num) ==
        Real(qstok, rneg, lit,
             ZeroFlag(lit.fdigits, ZeroFlag(lit.digits, TRUE)), num,
             FpClass(lit.digits, lit.fdigits, lit.rbase, lit.pbase, lit.exp,
                     libm.cur))
      \* lines 591-802
      Number(qstok, rneg, lit) ==
        IF lit.code # "code_success" THEN Err(lit.length, lit.code)
        ELSE IF ~integer_as_real /\ ~lit.fraction
          THEN Power(qstok, rneg, lit, IntDigits(lit.digits, lit.rbase, U64(0)))
        ELSE Class(qstok, rneg, lit,
                   NDigits(lit.digits \o lit.fdigits, lit.rbase, <<>>))
      \* lines 585-589
      Sign(qstok) ==
        Number(qstok, qstok /\ sq[Len(sq)].val = "punctuator_sub", Literal(r))
  IN
  IF Find(s_digits, 20, At(r, 0)) = 0 THEN Rejected(sq, r)
  ELSE Sign(do_check_mergeability(sq, r))

\* ---- Token_Stream::load -------------------------------------------------
\* Line 820.
Shebang(r) ==
  r.m_line = 1 /\ size_avail(r) >= 2 /\ SameBytes(r, <<35, 33>>, 2)

\* Lines 824-835: the Parser_Error that the loop throws, NoError when it
\* comes to the end of the line.  A call of utf8_decode that fails leaves
\* tptr moved bytes after bptr, or after the last byte it can have looked at
\* when that comes first.
RECURSIVE Validate(_, _)
Validate(r, moved) ==
  IF size_avail(r) = 0 THEN NoError
  ELSE LET d == utf8_decode(Avail(r)) IN
       IF d.len = 0
         THEN do_make_parser_error(r, IF moved < d.most THEN moved ELSE d.most,
                                   "code_utf8_sequence_invalid")
       ELSE IF d.cp = 0
         THEN do_make_parser_error(r, d.len, "code_null_character_disallowed")
       ELSE Validate(consume(r, d.len), moved)

\* std::search for the two bytes of line 842, from offset i on: the offset
\* where they are found, or the size of the line.
RECURSIVE SearchTerm(_, _)
SearchTerm(r, i) ==
  IF i + 1 >= size_avail(r) THEN size_avail(r)
  ELSE IF At(r, i) = 42 /\ At(r, i + 1) = 47 THEN i
  ELSE SearchTerm(r, i + 1)

\* Lines 878-886: the first function that takes a token, throws or ends the
\* run decides.
Accept(sq, r, opts) ==
  LET Or(a, b) == IF a.got \/ a.err # NoError \/ a.abort # "none" THEN a ELSE b
  IN Or(do_accept_punctuator(sq, r),
     Or(do_accept_string_literal(sq, r, 34, TRUE),
     Or(do_accept_string_literal(sq, r, 39,
                                 opts.escapable_single_quote_string),
     Or(do_accept_identifier_or_keyword(sq, r, opts.keyword_as_identifier),
     Or(do_accept_numeric_literal(sq, r, opts.integer_as_real),
        Thrown(sq, r, do_make_parser_error(
                        r, 1, "code_token_character_unrecognized")))))))

\* The iteration with a space that is passed over but not consumed (line 857
\* left out).
Iteration_SpaceKept(sq, r, bc, opts) ==
  LET head == peek(r, 0)
      next == peek(r, 1)
      t == SearchTerm(r, 0)
      Skip(r2, bc2, brk) ==
        [seq |-> sq, reader |-> r2, bcomm |-> bc2, err |-> NoError,
         abort |-> "none", brk |-> brk]
      Token(a) ==
        [seq |-> a.seq, reader |-> a.reader, bcomm |-> bc, err |-> a.err,
         abort |-> a.abort, brk |-> FALSE]
  IN
  IF TackSet(bc)
    THEN IF t = size_avail(r)
           THEN Skip(consume(r, size_avail(r)), bc, TRUE)
           ELSE Skip(consume(r, t + 2), TackClear(bc), FALSE)
  ELSE IF head \in {32, 9, 11, 12, 13, 10} THEN Skip(r, bc, FALSE)
  ELSE IF head = 47 /\ next = 47
    THEN Skip(consume(r, size_avail(r)), bc, TRUE)
  ELSE IF head = 47 /\ next = 42 THEN Skip(consume(r, 2), TackSetTo(r, 2), FALSE)
  ELSE Token(Accept(sq, r, opts))

\* Lines 838-887: one iteration of the loop; brk tells that it left the loop
\* by a break.
Iteration(sq, r, bc, opts) ==
  LET head == peek(r, 0)
      next == peek(r, 1)
      t == SearchTerm(r, 0)
      Skip(r2, bc2, brk) ==
        [seq |-> sq, reader |-> r2, bcomm |-> bc2, err |-> NoError,
         abort |-> "none", brk |-> brk]
      Token(a) ==
        [seq |-> a.seq, reader |-> a.reader, bcomm |-> bc, err |-> a.err,
         abort |-> a.abort, brk |-> FALSE]
  IN
  IF TackSet(bc)
    THEN IF t = size_avail(r)
           THEN Skip(consume(r, size_avail(r)), bc, TRUE)
           ELSE Skip(consume(r, t + 2), TackClear(bc), FALSE)
  ELSE IF head \in {32, 9, 11, 12, 13, 10} THEN Skip(consume(r, 1), bc, FALSE)
  ELSE IF head = 47 /\ next = 47
    THEN Skip(consume(r, size_avail(r)), bc, TRUE)
  ELSE IF head = 47 /\ next = 42 THEN Skip(consume(r, 2), TackSetTo(r, 2), FALSE)
  ELSE Token(Accept(sq, r, opts))

\* The sequence left as it is.
reverse_Not(s) == s

\* Line 901.
reverse(s) == [i \in 1..Len(s) |-> s[Len(s) + 1 - i]]

\* Lines 890-892.
Unclosed(bc) ==
  [line |-> bc.m_line, offset |-> bc.m_offset, length |-> bc.m_length,
   code |-> "code_block_comment_unclosed"]

\* ---- Token_Stream::get_parser_error, empty, peek_opt, shift -------------
\* Lines 911-929.
get_parser_error(st) ==
  CASE st.state = "state_empty" ->
         [line |-> 0, offset |-> 0, length |-> 0, code |-> "code_no_data_loaded"]
    [] st.state = "state_error" -> st.err
    [] st.state = "state_success" -> NoError

\* Lines 931-949.
empty(st) ==
  CASE st.state = "state_empty" -> TRUE
    [] st.state = "state_error" -> TRUE
    [] st.state = "state_success" -> st.tokens = <<>>

\* A null pointer returned after a load that failed, as when no token is
\* left.
peek_opt_Lenient(st) ==
  CASE st.state = "state_empty" ->
         [threw |-> "No data have been loaded so far.", tok |-> <<>>]
    [] st.state = "state_error" -> [threw |-> "none", tok |-> <<>>]
    [] st.state = "state_success" ->
         [threw |-> "none",
          tok |-> IF st.tokens = <<>> THEN <<>>
                  ELSE <<st.tokens[Len(st.tokens)]>>]

\* Lines 951-973: the runtime error thrown ("none" when the function
\* returns) and the token returned (none for a null pointer).
peek_opt(st) ==
  CASE st.state = "state_empty" ->
         [threw |-> "No data have been loaded so far.", tok |-> <<>>]
    [] st.state = "state_error" ->
         [threw |-> "The previous load operation has failed.", tok |-> <<>>]
    [] st.state = "state_success" ->
         [threw |-> "none",
          tok |-> IF st.tokens = <<>> THEN <<>>
                  ELSE <<st.tokens[Len(st.tokens)]>>]

\* Lines 975-998: the runtime error thrown ("none" when the function
\* returns) and the stream afterwards.
shift(st) ==
  CASE st.state = "state_empty" ->
         [threw |-> "No data have been loaded so far.", stor |-> st]
    [] st.state = "state_error" ->
         [threw |-> "The previous load operation has failed.", stor |-> st]
    [] st.state = "state_success" ->
         IF st.tokens = <<>>
         THEN [threw |-> "There are no more tokens from this stream.",
               stor |-> st]
         ELSE [threw |-> "none",
               stor |-> [st EXCEPT !.tokens = SubSeq(@, 1, Len(@) - 1)]]

\* ---- the lexer as a state machine ---------------------------------------
\* A stream made with the bytes src to read and the options opts, in a
\* build whose std::pow rounds each power in one of the ways Pows.
InitStream(Inputs, Opts, Pows) ==
  /\ InitCollector
  /\ source \in Inputs /\ options \in Opts /\ cbuf = source
  /\ libm \in [any : {Pows}, cur : Pows]
  /\ reader = NewReader /\ seq = <<>> /\ bcomm = NewTack
  /\ m_stor = Nothing /\ lpc = "idle" /\ seen = NoSeen

\* load returns: its locals are gone.
Returns(stor, ok) ==
  /\ m_stor' = stor
  /\ seen' = [NoSeen EXCEPT !.last = "load", !.flag = ok, !.tokens = seq]
  /\ lpc' = "idle"
  /\ reader' = NewReader /\ seq' = <<>> /\ bcomm' = NewTack

\* Lines 894-900.
Catch(e) == Returns([state |-> "state_error", err |-> e], FALSE)

\* Lines 806-817: load is called with a buffer that holds the bytes of
\* source.
Load ==
  /\ lpc = "idle"
  /\ m_stor' = Nothing
  /\ cbuf' = source
  /\ seq' = <<>> /\ bcomm' = NewTack /\ reader' = NewReader
  /\ lpc' = "advance"
  /\ seen' = NoSeen
  /\ UNCHANGED <<source, options, libm, gcvars>>

\* Lines 818-838: a line is read and validated.
Advance ==
  /\ lpc = "advance"
  /\ advance(reader, cbuf).more
  /\ \E a \in {advance(reader, cbuf)}, moved \in 0..4 :
       /\ cbuf' = a.cbuf
       /\ IF Shebang(a.reader)
            THEN /\ reader' = a.reader
                 /\ UNCHANGED <<seq, bcomm, m_stor, lpc, seen>>
          ELSE IF Validate(a.reader, moved) # NoError
            THEN Catch(Validate(a.reader, moved))
          ELSE /\ reader' = a.reader
               /\ lpc' = IF size_avail(a.reader) = 0 THEN "advance" ELSE "tokens"
               /\ UNCHANGED <<seq, bcomm, m_stor, seen>>
  /\ UNCHANGED <<source, options, libm, gcvars>>

\* Lines 838-888: one iteration of the loop over the line.
Tokenize ==
  /\ lpc = "tokens"
  /\ \E it \in {Iteration(seq, reader, bcomm, options)} :
       IF it.abort # "none"
         THEN /\ lpc' = "aborted"
              /\ seen' = [seen EXCEPT !.last = "load", !.threw = it.abort]
              /\ UNCHANGED <<reader, seq, bcomm, m_stor>>
       ELSE IF it.err # NoError THEN Catch(it.err)
       ELSE /\ seq' = it.seq /\ bcomm' = it.bcomm
            /\ reader' = IF it.brk \/ size_avail(it.reader) = 0
                         THEN rewind(it.reader, 0) ELSE it.reader
            /\ lpc' = IF it.brk \/ size_avail(it.reader) = 0
                      THEN "advance" ELSE "tokens"
            /\ UNCHANGED <<m_stor, seen>>
  /\ \E p \in libm.any : libm' = [libm EXCEPT !.cur = p]
  /\ UNCHANGED <<source, options, cbuf, gcvars>>

\* Lines 818, 890-903: there is no line left.
Finish ==
  /\ lpc = "advance"
  /\ ~advance(reader, cbuf).more
  /\ IF TackSet(bcomm) THEN Catch(Unclosed(bcomm))
     ELSE Returns([state |-> "state_success", tokens |-> reverse(seq)], TRUE)
  /\ UNCHANGED <<source, options, libm, cbuf, gcvars>>

\* -- the calls on a stream that is not being loaded
\* Lines 906-909.
Clear ==
  /\ lpc = "idle"
  /\ m_stor' = Nothing
  /\ seen' = [NoSeen EXCEPT !.last = "clear"]
  /\ UNCHANGED <<source, options, libm, cbuf, reader, seq, bcomm, lpc, gcvars>>

GetParserError ==
  /\ lpc = "idle"
  /\ seen' = [seen EXCEPT !.last = "get_parser_error", !.flag = FALSE,
                          !.tok = <<get_parser_error(m_stor)>>,
                          !.threw = "none"]
  /\ UNCHANGED <<source, options, libm, cbuf, reader, seq, bcomm, m_stor, lpc, gcvars>>

Empty ==
  /\ lpc = "idle"
  /\ seen' = [seen EXCEPT !.last = "empty", !.flag = empty(m_stor),
                          !.tok = <<>>, !.threw = "none"]
  /\ UNCHANGED <<source, options, libm, cbuf, reader, seq, bcomm, m_stor, lpc, gcvars>>

PeekOpt ==
  /\ lpc = "idle"
  /\ seen' = [seen EXCEPT !.last = "peek_opt", !.flag = FALSE,
                          !.tok = peek_opt(m_stor).tok,
                          !.threw = peek_opt(m_stor).threw]
  /\ UNCHANGED <<source, options, libm, cbuf, reader, seq, bcomm, m_stor, lpc, gcvars>>

Shift ==
  /\ lpc = "idle"
  /\ m_stor' = shift(m_stor).stor
  /\ seen' = [seen EXCEPT !.last = "shift", !.flag = FALSE, !.tok = <<>>,
                          !.threw = shift(m_stor).threw,
                          !.shifts = @ + B(shift(m_stor).threw = "none")]
  /\ UNCHANGED <<source, options, libm, cbuf, reader, seq, bcomm, lpc, gcvars>>

\* load alone.
NextLoad ==
  \/ Load
  \/ Advance
  \/ Tokenize
  \/ Finish

\* load and the calls on the stream.
NextStream ==
  \/ Load
  \/ Advance
  \/ Tokenize
  \/ Finish
  \/ Clear
  \/ GetParserError
  \/ Empty
  \/ PeekOpt
  \/ Shift

\* ---- the inputs and the specifications of the lexer ----------------------
\* The sequences of at most n elements of S, joined.
RECURSIVE Joined(_, _)
Joined(S, n) ==
  IF n = 0 THEN {<<>>}
  ELSE {<<>>} \cup {p \o t : p \in S, t \in Joined(S, n - 1)}

\* The number of bytes after an entry.
MaxTail == 2

\* Every entry of the table, followed by bytes.
PunctInputs ==
  LET
      \* The bytes & * + - . / < = > ? | that follow the first byte in some entry
      \* of the table or open a comment, and the letter a.
      PunctBytes ==
        {<<38>>, <<42>>, <<43>>, <<45>>, <<46>>, <<47>>, <<60>>, <<61>>, <<62>>,
         <<63>>, <<124>>, <<97>>}
  IN
    {s_punctuators[k].first \o t :
       k \in 1..Len(s_punctuators), t \in Joined(PunctBytes, MaxTail)}

SpecPunct == InitStream(PunctInputs, {NoOptions}, {"nearest"}) /\ [][NextLoad]_vars

\* The number of pieces of an input.
MaxPieces == 4

SignInputs ==
  LET
      \* 1, +, -, a space, a comma, ), null, return, a, a line feed.
      SignPieces ==
        {<<49>>, <<43>>, <<45>>, <<32>>, <<44>>, <<41>>, <<110, 117, 108, 108>>,
         <<114, 101, 116, 117, 114, 110>>, <<97>>, <<10>>}
      \* "1 + + 2", "1 + +2", "1 - 2" and "1, -2"; "-0.5", "0.0e999",
      \* "-0.0e999", "1, -0.0e999" and "0e999".
      SignScenarios ==
        {<<49, 32, 43, 32, 43, 32, 50>>, <<49, 32, 43, 32, 43, 50>>,
         <<49, 32, 45, 32, 50>>, <<49, 44, 32, 45, 50>>,
         <<45, 48, 46, 53>>, <<48, 46, 48, 101, 57, 57, 57>>,
         <<45, 48, 46, 48, 101, 57, 57, 57>>,
         <<49, 44, 32, 45, 48, 46, 48, 101, 57, 57, 57>>,
         <<48, 101, 57, 57, 57>>}
  IN
    Joined(SignPieces, MaxPieces) \cup SignScenarios

\* Numeric literals read as integers where they can be, or as reals always.
SignOptions == {NoOptions, [NoOptions EXCEPT !.integer_as_real = TRUE]}

SpecSign == InitStream(SignInputs, SignOptions, {"nearest"}) /\ [][NextLoad]_vars

\* The number of digits written after a beginning.
MaxDigits == 2

IntInputs ==
  LET
      \* The beginnings of the integers written: nothing, the first eighteen
      \* digits of 2^63 and the first nineteen of 2^64 in base 10, 0x alone and
      \* before the first fifteen digits of 2^63 - 1, 2^63 and 2^64 - 1 in base 16,
      \* 0b alone and before sixty-two digits 1.
      IntSeeds ==
        {<<>>,
         <<57, 50, 50, 51, 51, 55, 50, 48, 51, 54, 56, 53, 52, 55, 55, 53, 56, 48>>,
         <<49, 56, 52, 52, 54, 55, 52, 52, 48, 55, 51, 55, 48, 57, 53, 53, 49, 54, 49>>,
         <<48, 120>>,
         <<48, 120, 55, 70, 70, 70, 70, 70, 70, 70, 70, 70, 70, 70, 70, 70, 70>>,
         <<48, 120, 56, 48, 48, 48, 48, 48, 48, 48, 48, 48, 48, 48, 48, 48, 48>>,
         <<48, 120, 70, 70, 70, 70, 70, 70, 70, 70, 70, 70, 70, 70, 70, 70, 70>>,
         <<48, 98>>,
         <<48, 98, 49, 49, 49, 49, 49, 49, 49, 49, 49, 49, 49, 49, 49, 49, 49, 49, 49, 49, 49, 49, 49, 49, 49, 49, 49, 49, 49, 49, 49, 49, 49, 49, 49, 49, 49, 49, 49, 49, 49, 49, 49, 49, 49, 49, 49, 49, 49, 49, 49, 49, 49, 49, 49, 49, 49, 49, 49, 49, 49, 49, 49, 49>>}
      \* The digits 0, 1, 7, 8, 9 and F.
      IntDigitPieces == {<<48>>, <<49>>, <<55>>, <<56>>, <<57>>, <<70>>}
      \* No exponent, e1, e18, e19, e-1, p1, p62, p63, p64, p2147483647.
      IntExponents ==
        {<<>>, <<101, 49>>, <<101, 49, 56>>, <<101, 49, 57>>, <<101, 45, 49>>,
         <<112, 49>>, <<112, 54, 50>>, <<112, 54, 51>>, <<112, 54, 52>>,
         <<112, 50, 49, 52, 55, 52, 56, 51, 54, 52, 55>>}
      \* What precedes the literal: nothing, "-", "- ", ")-".
      IntPrefixes == {<<>>, <<45>>, <<45, 32>>, <<41, 45>>}
  IN
    {p \o s \o d \o e :
       p \in IntPrefixes, s \in IntSeeds, d \in Joined(IntDigitPieces, MaxDigits),
       e \in IntExponents}

SpecInt == InitStream(IntInputs, {NoOptions}, {"nearest"}) /\ [][NextLoad]_vars

StreamInputs ==
  LET
      \* The opening and the closing of a block comment, /, a line feed, 1, a
      \* space, a double quote, a and a null byte.
      StreamPieces ==
        {<<47, 42>>, <<42, 47>>, <<47>>, <<10>>, <<49>>, <<32>>, <<34>>, <<97>>,
         <<0>>}
      \* The two lines "/* a" and "b */ 42".
      StreamScenarios ==
        {<<47, 42, 32, 97, 10, 98, 32, 42, 47, 32, 52, 50>>}
  IN
    Joined(StreamPieces, MaxPieces) \cup StreamScenarios

SpecStream == InitStream(StreamInputs, {NoOptions}, {"nearest"}) /\ [][NextStream]_vars

\* The literals, alone and after a -.
RealInputs ==
  LET
      \* 0.0, 1.0, 0.5, 0.001, 9.9, 00.00, 0, 1, 0x0.8, 0x1.0 and 0b0.1.
      RealMantissas ==
        {<<48, 46, 48>>, <<49, 46, 48>>, <<48, 46, 53>>, <<48, 46, 48, 48, 49>>,
         <<57, 46, 57>>, <<48, 48, 46, 48, 48>>, <<48>>, <<49>>,
         <<48, 120, 48, 46, 56>>, <<48, 120, 49, 46, 48>>, <<48, 98, 48, 46, 49>>}
      \* No exponent, e-3, e-323, e-324, e-400, e308, e309, e999, p-3, p-1074,
      \* p-1075, p-1100, p-5000, p1023, p1024.
      RealExponents ==
        {<<>>, <<101, 45, 51>>, <<101, 45, 51, 50, 51>>, <<101, 45, 51, 50, 52>>,
         <<101, 45, 52, 48, 48>>, <<101, 51, 48, 56>>, <<101, 51, 48, 57>>,
         <<101, 57, 57, 57>>, <<112, 45, 51>>, <<112, 45, 49, 48, 55, 52>>,
         <<112, 45, 49, 48, 55, 53>>, <<112, 45, 49, 49, 48, 48>>,
         <<112, 45, 53, 48, 48, 48>>, <<112, 49, 48, 50, 51>>,
         <<112, 49, 48, 50, 52>>}
  IN
    {p \o m \o e : p \in {<<>>, <<45>>}, m \in RealMantissas, e \in RealExponents}

SpecReal == InitStream(RealInputs, SignOptions, {"nearest", "other"}) /\ [][NextLoad]_vars

\* The three options, in every combination.
AllOptions ==
  [keyword_as_identifier : BOOLEAN, integer_as_real : BOOLEAN,
   escapable_single_quote_string : BOOLEAN]

\* The number of pieces of a text.
MaxText == 3

\* Texts of at most MaxText pieces, and some longer ones.
TextInputs ==
  LET \* " ' \ \x \u 4 0 0x . e - ` /* */ a line feed, a space, a, F, the
      \* byte 0x80, the two bytes of U+00E9, a null byte, $, < and =.
      TextPieces ==
        {<<34>>, <<39>>, <<92>>, <<92, 120>>, <<92, 117>>, <<52>>, <<48>>,
         <<48, 120>>, <<46>>, <<101>>, <<45>>, <<96>>, <<47, 42>>, <<42, 47>>,
         <<10>>, <<32>>, <<97>>, <<70>>, <<128>>, <<195, 169>>, <<0>>, <<36>>,
         <<60>>, <<61>>}
      \* "\x41", "é", "\U0000e9", "\U00e9", "\ud800", '\x4', 0x`,
      \* 0x`.`p`, 1`0.`5e-`3, 1.`, 1e`, 0b`1, 1``, 1.5e+, #!a and a second
      \* line, a- 4, a -4.
      TextScenarios ==
        {<<34, 92, 120, 52, 49, 34>>,
         <<34, 92, 117, 48, 48, 101, 57, 34>>,
         <<34, 92, 85, 48, 48, 48, 48, 101, 57, 34>>,
         <<34, 92, 85, 48, 48, 101, 57, 34>>,
         <<34, 92, 117, 100, 56, 48, 48, 34>>,
         <<39, 92, 120, 52, 39>>,
         <<48, 120, 96>>,
         <<48, 120, 96, 46, 96, 112, 96>>,
         <<49, 96, 48, 46, 96, 53, 101, 45, 96, 51>>,
         <<49, 46, 96>>,
         <<49, 101, 96>>,
         <<48, 98, 96, 49>>,
         <<49, 96, 96>>,
         <<49, 46, 53, 101, 43>>,
         <<35, 33, 97, 10, 52>>,
         <<97, 45, 32, 52>>,
         <<97, 32, 45, 52>>}
  IN
    Joined(TextPieces, MaxText) \cup TextScenarios

SpecText == InitStream(TextInputs, AllOptions, {"nearest"}) /\ [][NextLoad]_vars

\* load, once called, runs to its end: it is one sequential loop, so each of
\* its steps is taken when it is the step to take.  The weak fairness of
\* Advance and of Tokenize is written out, WF_vars(A) being
\* []<>~ENABLED <<A>>_vars \/ []<><<A>>_vars: the loop over the lines has a
\* step to take when a line is left (line 818), the loop over a line whenever
\* it is entered (line 838).
SpecLive ==
  /\ InitStream(TextInputs, AllOptions, {"nearest"}) /\ [][NextLoad]_vars
  /\ WF_vars(Finish)
  /\ []<>~(lpc = "advance" /\ advance(reader, cbuf).more) \/ []<><<Advance>>_vars
  /\ []<>~(lpc = "tokens") \/ []<><<Tokenize>>_vars

\* ---- the claims ---------------------------------------------------------


\* C1 (cycle reclamation): after one collect_variables(oldest), every cell
\* that was a member of a closed cycle without outside references when the
\* call was made is uninitialized and in no tracked set.
C1_CycleReclaimed ==
  (hist.last = "collect" /\ hist.order = <<0, 1, 2>>) =>
     \A c \in hist.mark : ~gc.valid[c] /\ c \notin TrackedAll(gc)

\* The cells the embedder can still get at: those it holds a handle to, and
\* those that chains of references lead to from them.
Protected(st) == ReachIn(st, st.alive, {c \in st.alive : st.roots[c] > 0})

\* C2 (external retention): no step of a collection uninitializes a cell that
\* is held from outside the collector or referenced, directly or through
\* other cells, from such a cell, nor puts it into the reuse pool.
C2_ExternalRetention ==
  [][pc \notin {"idle", "F0", "F1"} =>
       \A c \in Protected(gc) :
          /\ gc.valid[c] => gc'.valid[c]
          /\ c \in gc'.m_pool => c \in gc.m_pool]_vars

\* The references to v that the claim allows for: the handles of the
\* embedder, the slots of the cells, and the tracked set that owns v.
Accounted(st, v) ==
    st.roots[v] + SlotsFrom(st, st.alive, v)
  + Cardinality({i \in 0..gMax : v \in st.m_tracked[i]})

\* C3 (refcount soundness): once collect_variables has returned, the reference
\* count of every cell that is left equals the references held by the
\* embedder and by the cells, plus that of its tracked set: the collector
\* holds no other reference.
C3_RefcountSound ==
  hist.last = "collect" =>
     \A v \in gc.alive : use_count(gc, v) = Accounted(gc, v)

\* The cells of generation `gen` that the pass just completed has moved to the
\* next generation.
Promoted == hist.pre \cap gc.m_tracked[Idx(gen) - 1]

\* C4 (generation monotonicity): when a pass over a generation that is not
\* the oldest has completed, no cell is tracked in that generation, every
\* cell it tracked before is uninitialized and untracked or is tracked in
\* the next generation, and the counter of the next generation has grown by
\* the number of cells moved there.
C4_GenerationMonotonic ==
  (pc = "loop" /\ HasNext(gen)) =>
     /\ gc.m_tracked[Idx(gen)] = {}
     /\ \A c \in hist.pre :
           \/ ~gc.valid[c] /\ c \notin TrackedAll(gc)
           \/ c \in gc.m_tracked[Idx(gen) - 1]
     /\ gc.m_counts[Idx(gen) - 1] = hist.precnt[2] + Cardinality(Promoted)

\* The generations that the call in progress, or the call that has just
\* returned, has collected.
Collected == {hist.order[i] : i \in 1..Len(hist.order)}

\* C5 (threshold triggering): a create_variable call into generation 0 collects
\* generation 0 if and only if the counter of generation 0 has reached the
\* threshold of generation 0, and then once; without a collection the call
\* adds one to the counter, and a collection of generation 0 resets it to 0.
\* So, from a counter of 0 and with a threshold of T, T calls collect nothing
\* of generation 0 and leave the counter at T, and call T + 1 collects
\* generation 0 once, leaving the counter at 1 for the cell it returns.
C5_ThresholdTriggering ==
  [][/\ (pc = "idle" /\ ((op' = "create" /\ arg' = 0)
                          \/ (hist'.last = "create" /\ hist'.ret = 0))) =>
           /\ (hist'.order # <<>> /\ hist'.order[1] = 0)
                 <=> gc.m_counts[Idx(0)] >= get_threshold(gc, 0)
           /\ \A i \in 2..Len(hist'.order) : hist'.order[i] # 0
     /\ (op' = "create" /\ pc' = "loop" /\ gen' = 0) => gc'.m_counts[Idx(0)] = 0
     /\ (pc = "loop" /\ op = "create" /\ arg = 0) =>
           \A i \in 2..Len(hist'.order) : hist'.order[i] # 0
     /\ (hist'.last = "create" /\ hist'.ret = 0) =>
           gc'.m_counts[Idx(0)] = gc.m_counts[Idx(0)] + 1]_vars

\* Call T + 1 has returned, for T = MaxThres: it has collected generation 0.
C5_Witness ==
  /\ hist.last = "create" /\ hist.ret = 0
  /\ get_threshold(gc, 0) = MaxThres
  /\ 0 \in Collected
  /\ gc.m_counts[Idx(0)] = 1

\* A threshold that no set_threshold call has changed: the calls made give
\* values up to MaxThres, below every default.
Unset(g) == get_threshold(gc, g) \notin 1..MaxThres

\* What set_threshold is to leave: the call gives its generation the value
\* passed and leaves the thresholds of the other generations as they were.
OnlyThatGeneration ==
  hist.last = "set_threshold" =>
     \A h \in Gens :
        IF h \in hist.mark THEN get_threshold(gc, h) = hist.ret
        ELSE <<h, get_threshold(gc, h)>> \in hist.pre

\* The comparison of create_variable uses the threshold that get_threshold
\* reports.
ComparedAsReported ==
  \A g \in Gens : Due(gc, g) <=> gc.m_counts[Idx(g)] >= get_threshold(gc, g)

\* C6 as stated (default thresholds): the unchanged threshold of the youngest
\* generation is 10, of the middle one 70 and of the oldest 500, as reported
\* by get_threshold and as compared in create_variable; set_threshold changes
\* the threshold of its generation only.
C6_DefaultsYoungestFirst ==
  /\ Unset(0) => get_threshold(gc, 0) = 10
  /\ Unset(1) => get_threshold(gc, 1) = 70
  /\ Unset(2) => get_threshold(gc, 2) = 500
  /\ ComparedAsReported
  /\ OnlyThatGeneration

\* C6 as amended: the unchanged threshold of the youngest generation is 500,
\* of the middle one 70 and of the oldest 10 (the initializer list of m_thres
\* is read with index gMax - gen), as reported by get_threshold and as
\* compared in create_variable; set_threshold changes the threshold of its
\* generation only.
C6_DefaultsOldestFirst ==
  /\ Unset(0) => get_threshold(gc, 0) = 500
  /\ Unset(1) => get_threshold(gc, 1) = 70
  /\ Unset(2) => get_threshold(gc, 2) = 10
  /\ ComparedAsReported
  /\ OnlyThatGeneration

\* set_threshold(youngest, MaxThres) on a collector with the other thresholds
\* unchanged.
C6_Witness ==
  /\ hist.last = "set_threshold" /\ hist.mark = {0}
  /\ get_threshold(gc, 0) = MaxThres
  /\ Unset(1) /\ Unset(2)

\* The generation that the loop of the call in progress has dealt with last.
LastGen == IF pc = "loop" THEN gen ELSE -1

\* The cells in the working sets of the collector.
Working(st) ==
  {Target(e) : e \in st.m_staged} \cup st.m_temp_1 \cup st.m_temp_2
     \cup st.m_unreachable \cup st.m_reachable

\* C7 (collection ordering): the generations collected by one call are in
\* strictly increasing order.  create_variable starts the collection of a
\* generation when its counter, as it is at that moment, has reached the
\* threshold, every generation passed over being below its threshold then;
\* it takes the new cell when no generation is left to collect and no
\* collection is running, and that cell, untracked until then, is in the
\* tracked set of the hint and in no working set.  collect_variables(limit)
\* has collected the generations 0..limit, in this order, when it returns.
C7_CollectionOrdering ==
  [][/\ \A i \in 1..(Len(hist'.order) - 1) : hist'.order[i] < hist'.order[i + 1]
     /\ (pc \in {"idle", "loop"} /\ op' = "create" /\ hist'.last = "running") =>
           \E g \in {hist'.order[Len(hist'.order)]} :
              /\ g > LastGen
              /\ Due(gc, g)
              /\ \A h \in (LastGen + 1)..(g - 1) : ~Due(gc, h)
     /\ (pc \in {"idle", "loop"} /\ hist'.last = "create") =>
           /\ \A h \in (LastGen + 1)..gMax : ~Due(gc, h)
           /\ gc'.m_recur = 0
           /\ \A v \in hist'.mark :
                 /\ v \notin TrackedAll(gc)
                 /\ v \in gc'.m_tracked[Idx(hist'.ret)]
                 /\ v \notin Working(gc')
     /\ (pc = "loop" /\ hist'.last = "collect") =>
           hist'.order = [i \in 1..(arg + 1) |-> i - 1]]_vars

\* A create_variable call has collected generation 0 and then, for the cells
\* this has promoted, generation 1, and has returned a cell.
C7_Witness ==
  /\ hist.last = "create"
  /\ hist.order = <<0, 1>>
  /\ hist.mark # {}
  /\ hist.pre # {}

\* The call made from a destructor has just returned.
NestedReturns == hist'.last = "nested" /\ hist.last # "nested"

\* C8 (re-entry guard): a collect_variables call made while a collection is
\* running returns 0 and leaves the tracked sets, the counters, the reuse
\* pool and the working sets as they are.
C8_ReentryNoop ==
  [][NestedReturns =>
       /\ hist'.ret = 0
       /\ gc'.m_tracked = gc.m_tracked
       /\ gc'.m_counts = gc.m_counts
       /\ gc'.m_pool = gc.m_pool
       /\ gc'.m_staged = gc.m_staged
       /\ gc'.m_temp_1 = gc.m_temp_1 /\ gc'.m_temp_2 = gc.m_temp_2
       /\ gc'.m_unreachable = gc.m_unreachable
       /\ gc'.m_reachable = gc.m_reachable]_vars

\* C9 (finalize): when finalize, called while no collection is in progress,
\* has returned, every cell that was tracked when it was called is
\* uninitialized, the tracked sets and the pool are empty, the value returned
\* is the number of cells that were tracked plus the number of cells that
\* were pooled when it was called, and a second finalize would return 0.
C9_Finalize ==
  hist.last = "finalize" =>
     /\ \A c \in hist.pre : ~gc.valid[c]
     /\ \A i \in 0..gMax : gc.m_tracked[i] = {}
     /\ gc.m_pool = {}
     /\ hist.ret = Cardinality(hist.pre) + Cardinality(hist.mark)
     /\ finalize_ret(gc) = 0

\* The insertion into the pool at line 129 has just thrown.
Throws == hist'.last = "threw" /\ pc = "P4b"

\* C10 as stated (pool insertion failure): when the insertion of an
\* unreachable cell into the pool fails, the cell is freed at once, every
\* unreachable cell that remained is uninitialized and untracked by the time
\* the call ends, and the counter of the generation is what it was before the
\* pass.
C10_CollectionContinues ==
  [][Throws =>
       /\ gc.var \notin gc'.alive
       /\ \A c \in gc.m_unreachable : ~gc'.valid[c] /\ c \notin TrackedAll(gc')
       /\ gc'.m_counts[Idx(gen)] = hist.precnt[1]]_vars

\* C10 as amended: when the insertion fails, the exception ends the pass
\* and the call.  The cell, uninitialized and erased from its tracked set, is
\* in no set of the collector and is freed unless a cell still refers to it;
\* the unreachable cells that remained are still in m_unreachable, as
\* initialized and as tracked as they were; no counter has changed, that of
\* the generation being what it was before the pass, plus one for each cell
\* that a destructor run by the pass has created in the generation; no
\* collection is running any more.
C10_CollectionAbandoned ==
  [][Throws =>
       /\ ~gc'.valid[gc.var]
       /\ gc.var \notin TrackedAll(gc') \cup gc'.m_pool \cup Working(gc')
       /\ gc.var \in gc'.alive <=> SlotsFrom(gc', gc'.alive, gc.var) > 0
       /\ gc'.m_unreachable = gc.m_unreachable
       /\ \A c \in gc.m_unreachable :
             /\ gc'.valid[c] = gc.valid[c]
             /\ \A i \in 0..gMax : c \in gc'.m_tracked[i] <=> c \in gc.m_tracked[i]
       /\ gc'.m_counts = gc.m_counts
       /\ gc'.m_counts[Idx(gen)] = hist.precnt[1] + hist.made
       /\ gc'.m_recur = 0 /\ pc' = "idle"]_vars

\* The insertion has failed for one cell of a cycle of two: the other cell is
\* still initialized and tracked, and keeps the first one allocated.
C10_Witness ==
  /\ hist.last = "threw"
  /\ \E c \in gc.m_unreachable : gc.valid[c] /\ c \in TrackedAll(gc)
  /\ hist.mark \subseteq gc.alive

\* The cells that the pass in progress has found unreachable and that are
\* still allocated.
Doomed(st) == hist.found \cap st.alive

\* The doomed cells that line 121 has uninitialized already.
Wiped(st, p) ==
  Doomed(st) \ (st.m_unreachable \cup (IF p = "P4b" THEN {st.var} ELSE {}))

\* C11 (destruction ordering): while the reclaim loop of a collection runs
\* and no exception ends it, no unreachable cell is freed as long as one of
\* them has still to be uninitialized, and every cell that the loop has
\* uninitialized is held by the reuse pool or by a tracked set.
C11_DestructionOrdering ==
  [][(pc \in {"P4", "P4b"} /\ hist'.last # "threw") =>
       /\ Doomed(gc) \ gc'.alive # {} => gc'.m_unreachable = {}
       /\ Wiped(gc, pc) \subseteq gc.m_pool \cup TrackedAll(gc)]_vars

\* create_variable returns v: the caller receives one more handle of v.
Returned(v) ==
  /\ hist'.last = "create" /\ hist'.mark = {v}
  /\ pc' = "idle" /\ pc \in {"idle", "loop"}
  /\ gc'.roots[v] = gc.roots[v] + 1

\* C12 (allocation): the cell that create_variable(gen_hint) returns is in
\* the tracked set of the hinted generation and of no other one, and the
\* counter of that generation is one more than the collections of the call
\* left it; the cell comes out of the reuse pool, which loses just that cell,
\* whenever the pool is not empty, and is a new one only when the pool is
\* empty.
C12_Allocation ==
  [][\A v \in Cells : Returned(v) =>
       /\ \A g \in Gens : v \in gc'.m_tracked[Idx(g)] <=> g = hist'.ret
       /\ gc'.m_counts[Idx(hist'.ret)] = gc.m_counts[Idx(hist'.ret)] + 1
       /\ \A g \in Gens \ {hist'.ret} :
            gc'.m_counts[Idx(g)] = gc.m_counts[Idx(g)]
       /\ gc.m_pool # {} =>
            /\ v \in gc.m_pool
            /\ gc'.m_pool = gc.m_pool \ {v}
            /\ Cardinality(gc'.m_pool) = Cardinality(gc.m_pool) - 1
       /\ gc.m_pool = {} => v \notin gc.alive /\ gc'.m_pool = {}]_vars

\* A call that collected generation 0 has returned one of the two cells that
\* its collection pooled; the other one is still pooled.
C12_Witness ==
  /\ hist.last = "create" /\ hist.order # <<>>
  /\ hist.mark \subseteq gc.m_tracked[Idx(hist.ret)]
  /\ gc.m_pool # {} /\ gc.m_pool \cap hist.mark = {}
  /\ gc.m_counts[Idx(hist.ret)] = 1

\* ---- the claims about the lexer -----------------------------------------
\* The loop of load is about to read a token: no comment is open and none
\* opens here.
AtToken ==
  /\ lpc = "tokens" /\ ~TackSet(bcomm)
  /\ ~(peek(reader, 0) = 47 /\ peek(reader, 1) \in {47, 42})

\* The entries of the table that the bytes left of the line begin with.
Matching(r) ==
  {k \in 1..Len(s_punctuators) :
     LET e == s_punctuators[k].first IN
     /\ Len(e) <= size_avail(r)
     /\ \A i \in 1..Len(e) : r.m_str[r.m_offset + i] = e[i]}

\* C13 (longest match): when the bytes left of a line, outside comments,
\* begin with a punctuator byte, the step of load appends one punctuator
\* token: that of the longest entry of the table that those bytes begin
\* with.
C13_LongestMatch ==
  [][(AtToken /\ Find(s_punct_chars, 24, peek(reader, 0)) # 0) =>
       \E k \in Matching(reader) :
         /\ \A j \in Matching(reader) :
              Len(s_punctuators[j].first) <= Len(s_punctuators[k].first)
         /\ seq' = Append(seq, [line |-> reader.m_line,
                                offset |-> reader.m_offset,
                                length |-> Len(s_punctuators[k].first),
                                kind |-> "punctuator",
                                val |-> s_punctuators[k].second])]_vars

\* The four bytes <<<= have been read as one token.
C13_Witness ==
  /\ seen.last = "load" /\ seen.flag
  /\ source = <<60, 60, 60, 61>>
  /\ Len(seen.tokens) = 1
  /\ seen.tokens[1].val = "punctuator_sll_eq" /\ seen.tokens[1].length = 4

\* The last token of sq is a + or a - that ends where the reader stands, on
\* its line, and the token before it, if there is one, is a keyword or a
\* punctuator that does not end an expression.
Absorbable(sq, r) ==
  /\ sq # <<>>
  /\ LET last == sq[Len(sq)] IN
     /\ last.kind = "punctuator"
     /\ last.val \in {"punctuator_add", "punctuator_sub"}
     /\ last.line = r.m_line
     /\ last.offset + last.length = r.m_offset
  /\ \/ Len(sq) = 1
     \/ /\ Len(sq) > 1
        /\ LET pt == sq[Len(sq) - 1] IN
           \/ /\ pt.kind = "keyword"
              /\ pt.val \notin {"keyword_null", "keyword_true", "keyword_false",
                                "keyword_nan", "keyword_infinity",
                                "keyword_this"}
           \/ /\ pt.kind = "punctuator"
              /\ pt.val \notin {"punctuator_inc", "punctuator_dec",
                                "punctuator_parenth_cl", "punctuator_bracket_cl",
                                "punctuator_brace_cl"}

\* The literal is below zero.
Negative(tok) ==
  IF tok.kind = "integer_literal" THEN tok.val[4] >= 32768
  ELSE tok.val.negative

\* C14 (sign merging): a step of load that reads a numeric literal replaces
\* the last token by the literal, which starts where that token started and
\* carries its sign, exactly when that token is a + or a - on the same line
\* that ends where the digits begin and the token before it is absent, a
\* keyword other than null, true, false, nan, infinity, this, or a
\* punctuator other than ++, --, ), ], }; otherwise the literal is appended,
\* the tokens read before stay, and the literal is not below zero.
C14_SignMerging ==
  [][(AtToken /\ Find(s_digits, 20, peek(reader, 0)) # 0 /\ seq' # <<>>
        /\ lpc' \in {"tokens", "advance"}) =>
       LET new == seq'[Len(seq')] IN
       /\ new.kind \in {"integer_literal", "real_literal"}
       /\ IF Absorbable(seq, reader)
          THEN /\ seq' = Append(SubSeq(seq, 1, Len(seq) - 1), new)
               /\ new.offset = seq[Len(seq)].offset
               /\ new.length >= 2
               /\ IF seq[Len(seq)].val = "punctuator_sub"
                  THEN Negative(new) \/ new.val = U64(0)
                  ELSE ~Negative(new)
          ELSE /\ seq' = Append(seq, new)
               /\ new.offset = reader.m_offset
               /\ ~Negative(new)]_vars

\* load has returned from reading src with every option off.
Loaded(src) == seen.last = "load" /\ source = src /\ options = NoOptions

\* The token tok is the integer literal of value n at offset o, of length l.
IsInteger(tok, n, o, l) ==
  /\ tok.kind = "integer_literal" /\ tok.val = U64(n)
  /\ tok.line = 1 /\ tok.offset = o /\ tok.length = l

\* The token tok is the punctuator + at offset o.
IsAdd(tok, o) ==
  /\ tok.kind = "punctuator" /\ tok.val = "punctuator_add"
  /\ tok.line = 1 /\ tok.offset = o /\ tok.length = 1

\* C15 (the input 1 + + 2): as stated, load reads the seven bytes "1 + + 2"
\* as three tokens, the integer 1, the punctuator + and the integer +2 that
\* begins at the second +.
C15_ThreeTokens ==
  Loaded(<<49, 32, 43, 32, 43, 32, 50>>) =>
    /\ seen.flag
    /\ Len(seen.tokens) = 3
    /\ IsInteger(seen.tokens[1], 1, 0, 1)
    /\ IsAdd(seen.tokens[2], 2)
    /\ IsInteger(seen.tokens[3], 2, 4, 3)

\* C15 (the input 1 + + 2), amended: load reads the seven bytes "1 + + 2" as
\* four tokens, the integer 1, the punctuator + twice and the integer 2,
\* because a space parts the second + from the digit; it reads the six bytes
\* "1 + +2" as three tokens, the integer 1, the punctuator + and the integer
\* +2 that begins at the second +.
C15_FourTokens ==
  /\ Loaded(<<49, 32, 43, 32, 43, 32, 50>>) =>
       /\ seen.flag
       /\ Len(seen.tokens) = 4
       /\ IsInteger(seen.tokens[1], 1, 0, 1)
       /\ IsAdd(seen.tokens[2], 2)
       /\ IsAdd(seen.tokens[3], 4)
       /\ IsInteger(seen.tokens[4], 2, 6, 1)
  /\ Loaded(<<49, 32, 43, 32, 43, 50>>) =>
       /\ seen.flag
       /\ Len(seen.tokens) = 3
       /\ IsInteger(seen.tokens[1], 1, 0, 1)
       /\ IsAdd(seen.tokens[2], 2)
       /\ IsInteger(seen.tokens[3], 2, 4, 2)

\* "1 + + 2" has been read, and its last token is the digit alone.
C15_Witness ==
  /\ Loaded(<<49, 32, 43, 32, 43, 32, 50>>)
  /\ seen.flag
  /\ seen.tokens[Len(seen.tokens)].offset = 6

\* The natural number n as the 64 bits of an integer literal.
Pad(n) == [i \in 1..4 |-> IF i <= Len(n) THEN n[i] ELSE 0]

\* C16 (integer range): a step of load that reads an integer literal whose
\* exponent is read and not negative compares the magnitude, the digits in
\* their base times the base of the exponent raised to it, with 2^63: above
\* 2^63, and at 2^63 unless a - is merged, load fails with
\* integer_literal_overflow; otherwise the literal appended has exactly the
\* magnitude, negated when a - is merged, as its value.
C16_IntegerRange ==
  [][\A lit \in {IF AtToken THEN Literal(reader) ELSE NoError} :
       (/\ AtToken /\ Find(s_digits, 20, peek(reader, 0)) # 0
        /\ ~options.integer_as_real
        /\ lit.code = "code_success" /\ ~lit.fraction /\ lit.exp >= 0) =>
         LET mag == NDigits(lit.digits, lit.rbase, <<>>)
             far == mag # <<>> /\ lit.pbase >= 2 /\ lit.exp > 64
             value == NScale(mag, lit.pbase, lit.exp)
             neg == Absorbable(seq, reader)
                      /\ seq[Len(seq)].val = "punctuator_sub"
         IN
         IF far \/ ~NLeq(value, Two63) \/ (value = Two63 /\ ~neg)
         THEN /\ m_stor'.state = "state_error"
              /\ m_stor'.err.code = "code_integer_literal_overflow"
         ELSE /\ m_stor' = m_stor /\ seq' # <<>>
              /\ seq'[Len(seq')].kind = "integer_literal"
              /\ seq'[Len(seq')].val =
                   IF neg THEN Sub64(U64(0), Pad(value)) ELSE Pad(value)]_vars

\* "-0x8000000000000000" has been read as one literal, the least integer of
\* 64 bits.
C16_Witness ==
  /\ Loaded(<<45, 48, 120, 56, 48, 48, 48, 48, 48, 48, 48, 48, 48, 48, 48,
             48, 48, 48, 48>>)
  /\ seen.flag
  /\ Len(seen.tokens) = 1
  /\ seen.tokens[1].kind = "integer_literal"
  /\ seen.tokens[1].val = Two63
  /\ seen.tokens[1].length = 19

\* The offsets from the reader at which the two bytes */ stand.
Terminators(r) ==
  {i \in 0..(size_avail(r) - 2) : At(r, i) = 42 /\ At(r, i + 1) = 47}

\* C17 (block comments): a step of load at the bytes /*, outside comments
\* and strings, appends no token and notes their line and offset; while the
\* comment is open a step appends no token, passes the first */ of the line
\* and closes the comment there, or passes the whole line when it has none,
\* and the place noted stays; when the input ends with the comment open, load
\* fails with block_comment_unclosed at the line and offset noted, with
\* length 2.
C17_BlockComments ==
  [][/\ (lpc = "tokens" /\ ~TackSet(bcomm)
           /\ peek(reader, 0) = 47 /\ peek(reader, 1) = 42) =>
          /\ seq' = seq /\ m_stor' = m_stor
          /\ bcomm' = [m_line |-> reader.m_line, m_offset |-> reader.m_offset,
                       m_length |-> 2]
     /\ (lpc = "tokens" /\ TackSet(bcomm)) =>
          /\ seq' = seq /\ m_stor' = m_stor
          /\ IF Terminators(reader) = {}
             THEN bcomm' = bcomm /\ lpc' = "advance"
             ELSE /\ ~TackSet(bcomm')
                  /\ \E i \in Terminators(reader) :
                       /\ \A j \in Terminators(reader) : i <= j
                       /\ IF i + 2 = size_avail(reader) THEN lpc' = "advance"
                          ELSE /\ lpc' = "tokens"
                               /\ reader' = consume(reader, i + 2)
     /\ (TackSet(bcomm) /\ TackSet(bcomm')) => bcomm' = bcomm
     /\ (lpc = "advance" /\ TackSet(bcomm) /\ lpc' = "advance") => seq' = seq
     /\ (lpc = "advance" /\ TackSet(bcomm) /\ cbuf = <<>>) =>
          m_stor' = [state |-> "state_error",
                     err |-> [line |-> bcomm.m_line, offset |-> bcomm.m_offset,
                              length |-> 2,
                              code |-> "code_block_comment_unclosed"]]]_vars

\* load has failed at a comment that opens on the first line, after a token,
\* and is still open at the end of a later line.
C17_Witness ==
  /\ seen.last = "load" /\ ~seen.flag
  /\ m_stor.state = "state_error"
  /\ m_stor.err.code = "code_block_comment_unclosed"
  /\ m_stor.err.line = 1 /\ m_stor.err.offset > 0 /\ m_stor.err.length = 2
  /\ seen.tokens # <<>>
  /\ \E i \in 1..Len(source) : source[i] = 10 /\ i > m_stor.err.offset + 2

\* A stream that was loaded successfully and holds no token.
NoTokens == [state |-> "state_success", tokens |-> <<>>]

\* C18 (the error state is observable): as stated, whenever the stream is in
\* the error state, what peek_opt, shift or empty has just given differs
\* from what the same call gives on a stream loaded successfully with no
\* token.
C18_ProbesReportFailure ==
  m_stor.state = "state_error" =>
    /\ seen.last = "peek_opt" => seen.threw # peek_opt(NoTokens).threw
    /\ seen.last = "shift" => seen.threw # shift(NoTokens).threw
    /\ seen.last = "empty" => seen.flag # empty(NoTokens)

\* C18 (the error state is observable), amended: a load that fails leaves
\* the stream in the error state, holding the Parser_Error and no token; in
\* that state get_parser_error returns that error, peek_opt and shift throw
\* the runtime error of a failed load, and empty returns true, as it does for
\* a stream loaded successfully with no token; none of the four changes the
\* stream.
C18_ErrorState ==
  [][/\ (lpc = "advance" \/ lpc = "tokens") /\ lpc' = "idle" /\ ~seen'.flag =>
          /\ m_stor'.state = "state_error"
          /\ DOMAIN m_stor' = {"state", "err"}
          /\ m_stor'.err.code # "code_success"
          /\ m_stor'.err.line >= 1
     /\ (m_stor.state = "state_error" /\ lpc = "idle" /\ seen' # seen
           /\ seen'.last \in {"get_parser_error", "peek_opt", "shift", "empty"}) =>
          /\ m_stor' = m_stor
          /\ seen'.last = "get_parser_error" => seen'.tok = <<m_stor.err>>
          /\ seen'.last = "peek_opt" =>
               /\ seen'.threw = "The previous load operation has failed."
               /\ seen'.tok = <<>>
          /\ seen'.last = "shift" =>
               seen'.threw = "The previous load operation has failed."
          /\ seen'.last = "empty" => seen'.flag /\ seen'.threw = "none"]_vars

\* After a load that read a token and then failed, empty has returned true.
C18_Witness ==
  /\ m_stor.state = "state_error"
  /\ seen.tokens # <<>>
  /\ seen.last = "empty" /\ seen.flag

\* The token a stands before the token b in the source.
Before(a, b) ==
  \/ a.line < b.line
  \/ a.line = b.line /\ a.offset + a.length <= b.offset

\* C19 (token order): after a successful load that recognized the tokens
\* t1..tn, which stand in the order of the source, and k shifts that
\* returned, the stream holds n - k tokens; peek_opt returns t(k+1) when
\* k < n and no token when k = n, where empty returns true and at no other k;
\* shift returns when k < n and is the (k+1)-th shift then, and when k = n it
\* throws and leaves the stream as it is.
C19_TokenOrder ==
  [][(m_stor.state = "state_success" /\ lpc = "idle") =>
       LET t == seen.tokens
           n == Len(seen.tokens)
           k == seen.shifts
       IN
       /\ Len(m_stor.tokens) = n - k
       /\ \A i \in 1..(n - 1) : Before(t[i], t[i + 1])
       /\ (seen' # seen /\ seen'.last = "peek_opt") =>
            /\ seen'.threw = "none" /\ m_stor' = m_stor
            /\ seen'.tok = IF k < n THEN <<t[k + 1]>> ELSE <<>>
       /\ (seen' # seen /\ seen'.last = "empty") =>
            /\ seen'.flag = (k = n) /\ m_stor' = m_stor
       /\ (seen' # seen /\ seen'.last = "shift") =>
            IF k < n
            THEN /\ seen'.threw = "none" /\ seen'.shifts = k + 1
                 /\ Len(m_stor'.tokens) = n - k - 1
            ELSE /\ seen'.threw = "There are no more tokens from this stream."
                 /\ seen'.shifts = k
                 /\ m_stor' = m_stor]_vars

\* Three tokens were loaded and shifted, and one more shift has thrown.
C19_Witness ==
  /\ m_stor.state = "state_success"
  /\ Len(seen.tokens) = 3 /\ seen.shifts = 3
  /\ seen.last = "shift"
  /\ seen.threw = "There are no more tokens from this stream."
  /\ seen.tokens[1].kind # seen.tokens[3].kind

\* C20 (real underflow): a step of load that reads a numeric literal as a
\* real, because it has a fractional part or because integer_as_real is set,
\* fails with real_literal_underflow when some digit of its integral or
\* fractional part is not zero and its scaled value is zero as a binary64;
\* when all those digits are zero it appends the real literal zero.
C20_RealUnderflow ==
  [][\A lit \in {IF AtToken THEN Literal(reader) ELSE NoError} :
       (/\ AtToken /\ Find(s_digits, 20, peek(reader, 0)) # 0
        /\ lit.code = "code_success"
        /\ lit.fraction \/ options.integer_as_real) =>
         LET all == lit.digits \o lit.fdigits
             nonzero == \E i \in 1..Len(all) : all[i] # 0
             cls == FpClass(lit.digits, lit.fdigits, lit.rbase, lit.pbase,
                            lit.exp, libm.cur)
         IN
         /\ (nonzero /\ cls = "FP_ZERO") =>
              /\ m_stor'.state = "state_error"
              /\ m_stor'.err.code = "code_real_literal_underflow"
         /\ ~nonzero =>
              /\ m_stor' = m_stor /\ seq' # <<>>
              /\ seq'[Len(seq')].kind = "real_literal"
              /\ seq'[Len(seq')].val.fpclass = "FP_ZERO"]_vars

\* The bytes that a read past the end of a line is tried with.
PastBytes == {34, 39, 92, 48, 46, 101, 47, 61}

\* The reader r, the byte b lying past the end of its line.
Past(r, b) == [r EXCEPT !.m_past = b]

\* The iteration of the loop of load that is due, the byte b lying past
\* the end of the line.
IterationPast(b) ==
  LET it == Iteration(seq, Past(reader, b), bcomm, options) IN
  [it EXCEPT !.reader = Past(@, reader.m_past)]

\* C21 (the lexer never panics): for every text and every combination of
\* the three options, load is never ended by the runtime error of
\* Line_Reader::consume or by terminate; once it has returned, it has
\* returned true with the stream in the success state, or false with the
\* stream in the error state holding a Parser_Error; and nothing that load
\* does to a line depends on the bytes past the null byte that ends the
\* line, which it therefore does not read.  The validation of the line is
\* tried with the bytes that a decoder would take for a part of a sequence,
\* a continuation byte and a lead byte.
C21_NeverPanics ==
  /\ lpc # "aborted"
  /\ (lpc = "idle" /\ seen.last = "load") =>
       /\ seen.threw = "none"
       /\ \/ seen.flag /\ m_stor.state = "state_success"
          \/ /\ ~seen.flag /\ m_stor.state = "state_error"
             /\ m_stor.err.code # "code_success"
  /\ lpc = "tokens" =>
       \A it \in {Iteration(seq, reader, bcomm, options)} :
         \A b \in PastBytes : IterationPast(b) = it
  /\ (lpc = "advance" /\ advance(reader, cbuf).more) =>
       \A r \in {advance(reader, cbuf).reader} :
         /\ \A b \in PastBytes : Shebang(Past(r, b)) = Shebang(r)
         /\ \A moved \in 0..4 : \A v \in {Validate(r, moved)} :
              \A b \in {128, 195} : Validate(Past(r, b), moved) = v

\* A load has failed on an escape sequence that the end of the line cuts
\* short, in a string between single quotes.
C21_Witness ==
  /\ lpc = "idle" /\ seen.last = "load" /\ m_stor.state = "state_error"
  /\ m_stor.err.code = "code_escape_sequence_incomplete"
  /\ options.escapable_single_quote_string
  /\ source[1] = 39

\* No token of sq reaches into the token after it on the same line.
Apart(sq) ==
  \A i \in 1..(Len(sq) - 1) :
    sq[i].line = sq[i + 1].line =>
      sq[i].offset + sq[i].length <= sq[i + 1].offset

\* The token tok is a numeric literal of the line that the reader holds.
Numeric(tok) ==
  tok.kind \in {"integer_literal", "real_literal"} /\ tok.line = reader.m_line

\* The number of bytes of the sign that the token tok of that line begins
\* with.
Signed(tok) == IF reader.m_str[tok.offset + 1] \in {43, 45} THEN 1 ELSE 0

\* C22 (tokens do not overlap): of two adjacent tokens on the same line, in
\* the sequence that load is building and in the sequence that a successful
\* load has stored, the first ends at or before the offset where the second
\* begins; a numeric literal ends where its digits end, and one that has
\* absorbed a sign begins at the offset of the sign, its length being that
\* of the sign and of the digits that follow it.
C22_NonOverlap ==
  /\ Apart(seq)
  /\ m_stor.state = "state_success" => Apart(reverse(m_stor.tokens))
  /\ lpc = "tokens" =>
       \A i \in 1..Len(seq) :
         Numeric(seq[i]) =>
           LET lit == Literal([reader EXCEPT
                                 !.m_offset = seq[i].offset + Signed(seq[i])])
           IN /\ lit.code = "code_success"
              /\ seq[i].length = Signed(seq[i]) + lit.eexp
              /\ seq[i].offset + seq[i].length <= Len(reader.m_str)

\* A text has been read whose first line holds a token and, right after it,
\* a literal that begins at a - and is followed by another token.
C22_Witness ==
  /\ seen.last = "load" /\ seen.flag
  /\ \E i \in 2..(Len(seen.tokens) - 1) :
       /\ seen.tokens[i].kind = "integer_literal"
       /\ seen.tokens[i + 1].line = 1
       /\ source[seen.tokens[i].offset + 1] = 45
       /\ seen.tokens[i - 1].offset + seen.tokens[i - 1].length
            = seen.tokens[i].offset
       /\ seen.tokens[i].offset + seen.tokens[i].length
            = seen.tokens[i + 1].offset

\* The loop of load is about to read a numeric literal.
AtNumber == AtToken /\ Find(s_digits, 20, peek(reader, 0)) # 0

\* The step has failed with numeric_literal_incomplete.
Incomplete ==
  /\ m_stor'.state = "state_error"
  /\ m_stor'.err.code = "code_numeric_literal_incomplete"

\* C23 (digits of a numeric literal): as stated, a step of load that reads
\* a numeric literal fails with numeric_literal_incomplete unless the
\* integral part, the fractional part if there is a dot, and the exponent if
\* there is an e or a p, each hold one digit at least, the separators not
\* being counted.
C23_DigitsRequired ==
  [][\A lit \in {IF AtNumber THEN Literal(reader) ELSE NoError} :
       AtNumber =>
         LET dot == At(reader, lit.eintg) = 46
             edigits == DigitsOf(reader, lit.bexp, lit.eexp, 20)
         IN (\/ lit.digits = <<>>
             \/ dot /\ lit.fdigits = <<>>
             \/ lit.pbase # 0 /\ edigits = <<>>) => Incomplete]_vars

\* The bytes of the line from offset a to offset b - 1 of the reader.
Bytes(a, b) == SubSeq(Avail(reader), a + 1, b)

\* The digits written from offset a to offset b - 1, the separators left
\* out; 0 when there is none.
Plain(a, b) ==
  LET p == SelectSeq(Bytes(a, b), LAMBDA ch : ch # 96) IN
  IF p = <<>> THEN <<48>> ELSE p

\* The reader at the same literal written without separators, a part that
\* holds separators only being written 0.
Unseparated(lit) ==
  [reader EXCEPT !.m_str =
     SubSeq(reader.m_str, 1, reader.m_offset)
       \o Bytes(0, lit.bintg) \o Plain(lit.bintg, lit.eintg)
       \o Bytes(lit.eintg, lit.bfrac) \o
          (IF lit.fraction THEN Plain(lit.bfrac, lit.efrac) ELSE <<>>)
       \o Bytes(lit.efrac, lit.bexp) \o
          (IF lit.pbase # 0 THEN Plain(lit.bexp, lit.eexp) ELSE <<>>)
       \o Bytes(lit.eexp, size_avail(reader))]

\* The literals a and b have the same value.
SameValue(a, b) ==
  /\ a.kind = b.kind
  /\ IF a.kind = "integer_literal" THEN a.val = b.val
     ELSE /\ a.val.fpclass = b.val.fpclass
          /\ a.val.negative = b.val.negative
          /\ a.val.rbase = b.val.rbase
          /\ a.val.pbase = b.val.pbase /\ a.val.exp = b.val.exp
          /\ NScale(a.val.digits, a.val.rbase, b.val.nfrac)
               = NScale(b.val.digits, b.val.rbase, a.val.nfrac)

\* C23, as the code has it: a step of load that reads a numeric literal
\* fails with numeric_literal_incomplete, at the place of the part, exactly
\* when the integral part, the fractional part after a dot or the exponent
\* after an e or a p holds no byte at all, a part being the digits of the
\* base and the separators that follow one another; a literal that is
\* accepted has the value of the same literal written without the
\* separators, where a part made of separators only is written 0.
C23_PartsRequired ==
  [][\A lit \in {IF AtNumber THEN Literal(reader) ELSE NoError} :
       AtNumber =>
         LET dot == At(reader, lit.eintg) = 46
             where == IF lit.eintg = lit.bintg THEN lit.eintg
                      ELSE IF dot /\ lit.efrac = lit.bfrac THEN lit.efrac
                      ELSE IF lit.pbase # 0 /\ lit.eexp = lit.bexp
                        THEN lit.eexp
                      ELSE -1
             plain == do_accept_numeric_literal(seq, Unseparated(lit),
                                                options.integer_as_real)
         IN /\ Incomplete <=> where >= 0
            /\ Incomplete =>
                 /\ m_stor'.err.line = reader.m_line
                 /\ m_stor'.err.offset = reader.m_offset
                 /\ m_stor'.err.length = where
            /\ (lpc' \in {"tokens", "advance"} /\ seq' # <<>>) =>
                 /\ plain.got
                 /\ Len(plain.seq) = Len(seq')
                 /\ SameValue(seq'[Len(seq')], plain.seq[Len(seq')])
                 /\ seq'[Len(seq')].offset = plain.seq[Len(seq')].offset]_vars

\* 0x` has been read as the integer 0.
C23_Witness ==
  /\ seen.last = "load" /\ seen.flag /\ source = <<48, 120, 96>>
  /\ Len(seen.tokens) = 1
  /\ seen.tokens[1].kind = "integer_literal" /\ seen.tokens[1].val = U64(0)
  /\ seen.tokens[1].length = 3

\* ---- further claims about the collector ---------------------------------
\* A pass of do_collect_generation is running.
InPass == pc \in {"P0", "P1", "P2", "P3", "P3m", "P4", "P4b", "P5"}

\* The number of tracked sets that hold c.
Owners(st, c) == Cardinality({i \in 0..gMax : c \in st.m_tracked[i]})

\* C24 (other generations are left alone): no step of a pass over generation
\* g removes a cell from the tracked set of another generation, so a cell
\* tracked in a generation other than g before the pass is tracked there
\* afterwards; and between the calls every cell that is alive, initialized
\* and not pooled is tracked by exactly one generation.
C24_OtherGenerationsKept ==
  [][/\ InPass =>
          \A i \in 0..gMax \ {Idx(gen)} : gc.m_tracked[i] \subseteq gc'.m_tracked[i]
     /\ pc' = "idle" =>
          \A c \in gc'.alive :
             (gc'.valid[c] /\ c \notin gc'.m_pool) => Owners(gc', c) = 1]_vars

\* The assertion of line 74, for the iteration that erases v from m_temp_1.
Assert74(st, v) ==
  \A p \in {[st EXCEPT !.m_temp_1 = @ \ {v}, !.var = v, !.gc_ref[v] = 1]} :
     p.gc_ref[v] <= use_count(p, v) - 1

\* The assertion of line 85, for the iteration that erases s from m_staged.
Assert85(st, s) ==
  \A p \in {[st EXCEPT !.m_staged = @ \ {s}, !.var = Target(s),
                       !.gc_ref[Target(s)] = @ + 1]} :
     p.gc_ref[Target(s)] <= use_count(p, Target(s)) - 1

\* C25 (assertions): in every pass the assertions of do_collect_generation
\* hold, whichever element a loop takes next: the scratch counter is at most
\* use_count - 1 when line 73 has set it to 1 and when line 84 has incremented
\* it, it is not 0 for a cell taken from m_unreachable (line 120), and it is
\* 0 for a cell taken from m_reachable in the promotion loop (line 138).
C25_AssertionsHold ==
  /\ pc = "P1" => \A v \in gc.m_temp_1 : Assert74(gc, v)
  /\ pc = "P2" => \A s \in gc.m_staged : Assert85(gc, s)
  /\ pc = "P4" => \A v \in gc.m_unreachable : gc.gc_ref[v] # 0
  /\ pc = "P5" => \A v \in gc.m_reachable : gc.gc_ref[v] = 0

\* C26 (transient working sets): when do_collect_generation has returned
\* normally, for whichever generation, m_staged, m_temp_1, m_temp_2,
\* m_unreachable and m_reachable are empty.
C26_WorkingSetsEmpty ==
  pc = "loop" =>
     /\ gc.m_staged = {}
     /\ gc.m_temp_1 = {} /\ gc.m_temp_2 = {}
     /\ gc.m_unreachable = {}
     /\ gc.m_reachable = {}

\* The cells that the call which has just returned removed from the tracked
\* sets.
Untracked == hist.was \ TrackedAll(gc)

\* C27 (return value): when collect_variables has returned, the value
\* returned is the number of distinct cells that the call removed from the
\* tracked sets, and the reuse pool is empty.
C27_ReturnCountsRemoved ==
  hist.last = "collect" =>
     /\ hist.ret = Cardinality(Untracked)
     /\ gc.m_pool = {}

Advances(it) ==
  it.err # NoError \/ it.abort # "none" \/ it.reader.m_offset > reader.m_offset

\* C29 (termination): every iteration of the loop over a line throws or
\* leaves the read offset strictly greater than it was when the iteration
\* began, the iteration that rewinds to a merged sign included; and every
\* load that has been called returns.
C29_LoadTerminates ==
  /\ [](lpc = "tokens" =>
          \A it \in {Iteration(seq, reader, bcomm, options)} : Advances(it))
  /\ (lpc # "idle") ~> (lpc = "idle")

\* The iteration about to run merges a sign: it replaces the last token, the
\* sign, by the literal, and ends beyond the offset it began at.
C29_Witness ==
  /\ lpc = "tokens" /\ seq # <<>>
  /\ \E it \in {Iteration(seq, reader, bcomm, options)} :
       /\ it.err = NoError /\ it.abort = "none"
       /\ Len(it.seq) = Len(seq) /\ it.seq # seq
       /\ it.reader.m_offset > reader.m_offset

\* The line that is left to read, with the byte ch in the place of its first
\* byte.
HeadedBy(ch) ==
  [reader EXCEPT !.m_str = <<ch>> \o From(Avail(reader), 2), !.m_offset = 0]

\* C30 (no unhandled punctuator): every byte of s_punct_chars is the lexeme
\* of an entry of the table, and whatever bytes follow it on a line,
\* do_accept_punctuator takes a token there and does not get to the
\* terminate call after its loop; no load ends there.
C30_TerminateUnreachable ==
  /\ \A i \in 1..Len(s_punct_chars) :
        \E k \in 1..Len(s_punctuators) :
           s_punctuators[k].first = <<s_punct_chars[i]>>
  /\ lpc = "tokens" =>
        \A i \in 1..Len(s_punct_chars) :
           \A a \in {do_accept_punctuator(seq, HeadedBy(s_punct_chars[i]))} :
              a.got /\ a.abort = "none"
  /\ lpc # "aborted"

\* The loop is about to go backwards over the longer lexemes of a byte, none
\* of which is on the line, down to the lexeme of one byte.
C30_Witness ==
  /\ lpc = "tokens" /\ size_avail(reader) > 1
  /\ \E rg \in {equal_range(s_punctuators, At(reader, 0))} :
        /\ rg[2] - rg[1] > 2
        /\ Scan(reader, rg[1], rg[2]) = rg[1]

=============================================================================
